---- MODULE Spec2Model ----
(***************************************************************************)
(* Flight-risk analysis agents (cloud-functions/flight-risk-analysis):     *)
(* the layover analysis agent, the deterministic weather classifier and    *)
(* the flight-record normalisation helpers of the data analyst agent.      *)
(*                                                                         *)
(* Every operation is request scoped: one action of the model is one call  *)
(* of one operation.  The state records which operation ran last (op), the *)
(* inputs it was called with (args, the replies of the collaborators       *)
(* included), the value it returned (ret), the calls it made to the        *)
(* text-generation model (model_calls) and the requests it sent to the     *)
(* search provider and the warehouse (external_calls).  What outlives a    *)
(* call is what the constructors left: whether the layover agent's model   *)
(* client was constructed (gemini_model), whether the data analyst's       *)
(* warehouse client was (bq_available), and whether the weather agent has  *)
(* a search-provider key (serpapi_key).                                    *)
(*                                                                         *)
(* Python strings are TLA+ strings; a Python dict is a function whose      *)
(* DOMAIN is its set of keys.                                              *)
(***************************************************************************)
EXTENDS Integers, Sequences, FiniteSets, TLC

VARIABLES gemini_model, bq_available, serpapi_key, op, args, ret, model_calls,
          external_calls

vars == <<gemini_model, bq_available, serpapi_key, op, args, ret, model_calls,
          external_calls>>

\* what the constructors leave behind: the layover agent's model client, the data
\* analyst's warehouse client, the weather agent's search-provider key
constructed == <<gemini_model, bq_available, serpapi_key>>

(***************************************************************************)
(* Bounds of the model.                                                    *)
(***************************************************************************)
\* durations (minutes) the duration-parsing reply can spell: 0..MaxDuration
MaxDuration == 361
\* minutes given to the duration formatter: -MaxNegMinutes..MaxMinutes
MaxMinutes == 126
MaxNegMinutes == 2
\* weather phrases joined into one conditions string
MaxPhrases == 2
\* characters of a generated flight-number string
MaxFlightLen == 3
\* segments and layover entries of a provider itinerary
MaxSegments == 3
MaxLayovers == 3
\* rows the warehouse returns for a query
MaxRows == 2
\* layover descriptors in a batch
MaxBatch == 2
\* itineraries in best_flights / other_flights of a provider response
MaxBestFlights == 1
MaxOtherFlights == 11

(***************************************************************************)
(* Python str operations, on TLA+ strings.                                 *)
(***************************************************************************)
CharAt(s, i) == SubSeq(s, i, i)

LowerAlpha == "abcdefghijklmnopqrstuvwxyz"
UpperAlpha == "ABCDEFGHIJKLMNOPQRSTUVWXYZ"
DigitChars == "0123456789"

\* position of the one-character string c in alphabet, 0 when absent
IndexIn(c, alphabet) ==
    IF \E i \in 1..Len(alphabet) : CharAt(alphabet, i) = c
    THEN CHOOSE i \in 1..Len(alphabet) : CharAt(alphabet, i) = c
    ELSE 0

CharsOf(alphabet) == {CharAt(alphabet, i) : i \in 1..Len(alphabet)}
LowerChars == CharsOf(LowerAlpha)
UpperChars == CharsOf(UpperAlpha)
Digits == CharsOf(DigitChars)

\* the upper-case letter of each lower-case letter, and the reverse
ToUpperTable == [c \in LowerChars |-> CharAt(UpperAlpha, IndexIn(c, LowerAlpha))]
ToLowerTable == [c \in UpperChars |-> CharAt(LowerAlpha, IndexIn(c, UpperAlpha))]
\* the value of each decimal digit
DigitValueTable == [c \in Digits |-> IndexIn(c, DigitChars) - 1]

IsDigit(c) == c \in Digits
IsUpperChar(c) == c \in UpperChars
IsLowerChar(c) == c \in LowerChars
IsSpace(c) == c \in {" ", "\n", "\t"}

UpperChar(c) == IF c \in LowerChars THEN ToUpperTable[c] ELSE c
LowerChar(c) == IF c \in UpperChars THEN ToLowerTable[c] ELSE c

RECURSIVE StrUpper(_)
StrUpper(s) == IF s = "" THEN "" ELSE UpperChar(CharAt(s, 1)) \o StrUpper(Tail(s))

RECURSIVE StrLower(_)
StrLower(s) == IF s = "" THEN "" ELSE LowerChar(CharAt(s, 1)) \o StrLower(Tail(s))

RECURSIVE LStrip(_)
LStrip(s) == IF s # "" /\ IsSpace(CharAt(s, 1)) THEN LStrip(Tail(s)) ELSE s

RECURSIVE RStrip(_)
RStrip(s) ==
    IF s # "" /\ IsSpace(CharAt(s, Len(s))) THEN RStrip(SubSeq(s, 1, Len(s) - 1)) ELSE s

StrStrip(s) == LStrip(RStrip(s))

StartsWith(s, p) == Len(p) <= Len(s) /\ SubSeq(s, 1, Len(p)) = p
EndsWith(s, p) == Len(p) <= Len(s) /\ SubSeq(s, Len(s) - Len(p) + 1, Len(s)) = p
\* s[n:]
DropFirst(s, n) == IF n >= Len(s) THEN "" ELSE SubSeq(s, n + 1, Len(s))
\* s[:-n]
DropLast(s, n) == IF n >= Len(s) THEN "" ELSE SubSeq(s, 1, Len(s) - n)
\* t in s
Contains(s, t) == \E i \in 1..(Len(s) - Len(t) + 1) : SubSeq(s, i, i + Len(t) - 1) = t

\* dict.get(k, default)
Get(d, k, default) == IF k \in DOMAIN d THEN d[k] ELSE default

(***************************************************************************)
(* Python values that are not strings, and raised exceptions.              *)
(***************************************************************************)
\* A value whose type the code tests or trips over is tagged: a str is [str |-> s],
\* an int is [int |-> n], None is [py |-> "None"].
Str(s) == [str |-> s]
PyIntValue(n) == [int |-> n]
IsStr(v) == "str" \in DOMAIN v
\* the value None
None == [py |-> "None"]
IsNone(v) == v = None
\* bool(v) for a tagged value
Truthy(v) == IF IsStr(v) THEN v.str # "" ELSE IF "int" \in DOMAIN v THEN v.int # 0 ELSE FALSE
\* the outcome of a call: an exception raised, with its message, or a value returned
Raised(msg) == [raised |-> msg]
Returned(v) == [value |-> v]
IsRaised(r) == "raised" \in DOMAIN r

(***************************************************************************)
(* int(text): the text, whitespace stripped, is an optional sign followed  *)
(* by decimal digits.  The result is [ok |-> TRUE, val |-> n] or            *)
(* [ok |-> FALSE] for the ValueError.                                      *)
(***************************************************************************)
RECURSIVE DigitsValue(_, _)
DigitsValue(s, acc) ==
    IF s = "" THEN acc
    ELSE DigitsValue(Tail(s), 10 * acc + DigitValueTable[CharAt(s, 1)])

AllDigits(s) == s # "" /\ \A i \in 1..Len(s) : IsDigit(CharAt(s, i))

PyInt(text) ==
    LET t == StrStrip(text)
        signed == t # "" /\ CharAt(t, 1) \in {"-", "+"}
        body == IF signed THEN Tail(t) ELSE t
    IN  IF AllDigits(body)
        THEN [ok |-> TRUE,
              val |-> IF signed /\ CharAt(t, 1) = "-"
                      THEN 0 - DigitsValue(body, 0) ELSE DigitsValue(body, 0)]
        ELSE [ok |-> FALSE]

(***************************************************************************)
(* json.loads, on the reply bodies the model enumerates.  A parsed value   *)
(* is tagged with its JSON kind; kind "invalid" is the JSONDecodeError.    *)
(* Whitespace around the document is accepted, as json.loads does.         *)
(***************************************************************************)
JsonAnalysisBody == "{\"risk_level\": \"medium\", \"risk_score\": 55}"
JsonErrorBody == "{\"error\": \"quota\"}"
JsonArrayBody == "[\"error\"]"
JsonNumberBody == "42"
JsonStringBody == "\"no error\""
NotJsonBody == "Sorry, I cannot help"

WeatherJsonBody ==
    "{\"weather_risk\": {\"level\": \"low\", \"description\": \"Clear skies\"}, \"weather_conditions\": {\"conditions\": \"Sunny\"}, \"airport_complexity\": {\"complexity\": \"high\", \"description\": \"Busy hub\", \"concerns\": [\"Congestion\"]}, \"data_source\": \"Real-time weather data from SerpAPI\"}"

BatchJsonBody == "{\"ATL\": {\"risk_level\": \"medium\", \"risk_score\": 60}}"

JsonLoads(text) ==
    LET t == StrStrip(text)
    IN  CASE t = JsonAnalysisBody ->
               [kind |-> "object", value |-> [risk_level |-> "medium", risk_score |-> 55]]
          [] t = "[{\"airport_code\": \"IAH\", \"city\": \"Houston\", \"layover_duration_minutes\": 95}]" ->
               [kind |-> "array",
                value |-> <<[airport_code |-> "IAH", city |-> "Houston",
                             layover_duration_minutes |-> 95]>>]
          [] t = BatchJsonBody ->
               [kind |-> "object",
                value |-> [ATL |-> [risk_level |-> "medium", risk_score |-> 60]]]
          [] t = WeatherJsonBody ->
               [kind |-> "object",
                value |-> [weather_risk |-> [level |-> "low", description |-> "Clear skies"],
                           weather_conditions |-> [conditions |-> "Sunny"],
                           airport_complexity |->
                               [complexity |-> "high", description |-> "Busy hub",
                                concerns |-> <<"Congestion">>],
                           data_source |-> "Real-time weather data from SerpAPI"]]
          [] t = JsonErrorBody -> [kind |-> "object", value |-> [error |-> "quota"]]
          [] t = JsonArrayBody -> [kind |-> "array", value |-> <<"error">>]
          [] t = JsonNumberBody -> [kind |-> "number", value |-> 42]
          [] t = JsonStringBody -> [kind |-> "string", value |-> "no error"]
          [] OTHER -> [kind |-> "invalid"]

\* 'key' in v, for a parsed JSON value v: TypeError when v is not a container
PyIn(key, v) ==
    CASE v.kind = "object" -> Returned(key \in DOMAIN v.value)
      [] v.kind = "array" -> Returned(\E i \in 1..Len(v.value) : v.value[i] = key)
      [] v.kind = "string" -> Returned(Contains(v.value, key))
      [] OTHER -> Raised("argument of type '" \o v.kind \o "' is not iterable")

(***************************************************************************)
(* LayoverAnalysisAgent                                                    *)
(***************************************************************************)
\* generate_content(prompt): the reply is the text generated, or an exception
GenerateContent(reply) == reply

\* the connection type analyze_layover_feasibility derives from the duration
ConnectionType_Le120(duration_minutes) ==
    IF duration_minutes < 45 THEN "tight"
    ELSE IF duration_minutes <= 120 THEN "standard"
    ELSE IF duration_minutes < 360 THEN "comfortable"
    ELSE "plenty_of_time"

ConnectionType(duration_minutes) ==
    IF duration_minutes < 45 THEN "tight"
    ELSE IF duration_minutes < 120 THEN "standard"
    ELSE IF duration_minutes < 360 THEN "comfortable"
    ELSE "plenty_of_time"

\* _parse_duration_with_ai: [is_none |-> the result is None, result |-> minutes or None,
\* calls |-> model calls made]
ParseDurationWithAI_Default90(model, duration_str, reply) ==
    IF ~model THEN [is_none |-> FALSE, result |-> 90, calls |-> <<>>]
    ELSE LET response == GenerateContent(reply)
         IN  IF IsRaised(response) THEN [is_none |-> TRUE, result |-> None, calls |-> <<"parse_duration">>]
             ELSE LET minutes == PyInt(response.text)
                  IN  [is_none |-> ~minutes.ok,
                       result |-> IF minutes.ok THEN minutes.val ELSE None,
                       calls |-> <<"parse_duration">>]

ParseDurationWithAI_Retry(model, duration_str, reply) ==
    IF ~model THEN [is_none |-> TRUE, result |-> None, calls |-> <<>>]
    ELSE LET response == GenerateContent(reply)
             failed == IsRaised(response) \/ ~PyInt(response.text).ok
         IN  IF failed
             THEN [is_none |-> TRUE, result |-> None, calls |-> <<"parse_duration", "parse_duration">>]
             ELSE [is_none |-> FALSE, result |-> PyInt(response.text).val, calls |-> <<"parse_duration">>]

ParseDurationWithAI(model, duration_str, reply) ==
    IF ~model THEN [is_none |-> TRUE, result |-> None, calls |-> <<>>]
    ELSE LET response == GenerateContent(reply)
         IN  IF IsRaised(response) THEN [is_none |-> TRUE, result |-> None, calls |-> <<"parse_duration">>]
             ELSE LET minutes == PyInt(response.text)
                  IN  [is_none |-> ~minutes.ok,
                       result |-> IF minutes.ok THEN minutes.val ELSE None,
                       calls |-> <<"parse_duration">>]

\* The backquote character cannot be written in a TLA+ string: the model writes it
\* as the character ~, which no reply uses otherwise.
BackQuote == "~"
Fence == BackQuote \o BackQuote \o BackQuote
FenceJson == Fence \o "json"

StripFences_PrefixOnly(ai_response) ==
    IF StartsWith(ai_response, FenceJson) THEN DropFirst(ai_response, 7) ELSE ai_response

\* the code-fence clean-up of _get_ai_layover_analysis
StripFences(ai_response) ==
    LET a == IF StartsWith(ai_response, FenceJson) THEN DropFirst(ai_response, 7)
             ELSE ai_response
    IN  IF EndsWith(a, Fence) THEN DropLast(a, 3) ELSE a

\* _get_ai_layover_analysis: [result |-> parsed analysis or error dict, calls |-> ...]
GetAILayoverAnalysis(model, duration_str, weather_data, reparse, reply) ==
    IF ~model
    THEN [result |-> [kind |-> "object",
                      value |-> [error |-> "AI layover analysis system unavailable"]],
          calls |-> <<>>]
    ELSE LET parsed == ParseDurationWithAI(model, duration_str, reparse)
             unavailable == [kind |-> "object",
                             value |-> [error |-> "AI layover analysis system unavailable"]]
         IN  IF IsNone(weather_data)
             \* weather_data.get raises while the prompt is built
             THEN [result |-> unavailable, calls |-> parsed.calls]
             ELSE LET response == GenerateContent(reply)
                      calls == parsed.calls \o <<"layover_analysis">>
                  IN  IF IsRaised(response)
                      THEN [result |-> unavailable, calls |-> calls]
                      ELSE LET analysis == JsonLoads(StripFences(StrStrip(response.text)))
                           IN  IF analysis.kind = "invalid"
                               THEN [result |->
                                       [kind |-> "object",
                                        value |-> [error |->
                                          "AI layover analysis failed - invalid response format"]],
                                     calls |-> calls]
                               ELSE [result |-> analysis, calls |-> calls]

\* analyze_layover_feasibility: [result |-> the dict returned, calls |-> model calls made]
AnalyzeLayoverFeasibilityOf(model, duration_str, airport_code, weather_data, reply1, reply2, reply3) ==
    LET parsed == ParseDurationWithAI(model, duration_str, reply1)
        duration_minutes == parsed.result
    IN  IF parsed.is_none
        THEN [result |-> [error |-> "Unable to parse duration: " \o duration_str,
                          airport_code |-> airport_code,
                          analysis_failed |-> TRUE],
              calls |-> parsed.calls]
        ELSE
        LET connection_type == ConnectionType(duration_minutes)
        IN  IF ~model
            THEN [result |-> [error |-> "AI analysis model not available",
                              airport_code |-> airport_code,
                              duration_minutes |-> duration_minutes,
                              connection_type |-> connection_type,
                              analysis_failed |-> TRUE],
                  calls |-> parsed.calls]
            ELSE
            LET ai == GetAILayoverAnalysis(model, duration_str, weather_data, reply2, reply3)
                ai_analysis == ai.result
                calls == parsed.calls \o ai.calls
                has_error == PyIn("error", ai_analysis)
            IN  IF IsRaised(has_error)
                THEN [result |-> [error |-> "Layover analysis failed: " \o has_error.raised,
                                  airport_code |-> airport_code,
                                  analysis_failed |-> TRUE],
                      calls |-> calls]
                ELSE IF has_error.value /\ ai_analysis.kind # "object"
                \* ai_analysis['error'] raises for a list or a string
                THEN [result |-> [error |-> "Layover analysis failed: " \o ai_analysis.kind
                                              \o " indices must be integers",
                                  airport_code |-> airport_code,
                                  analysis_failed |-> TRUE],
                      calls |-> calls]
                ELSE IF has_error.value
                THEN [result |-> [error |-> ai_analysis.value["error"],
                                  airport_code |-> airport_code,
                                  duration_minutes |-> duration_minutes,
                                  connection_type |-> connection_type,
                                  analysis_failed |-> TRUE],
                      calls |-> calls]
                ELSE [result |-> [duration_minutes |-> duration_minutes,
                                  duration_formatted |-> duration_str,
                                  airport_code |-> airport_code,
                                  connection_type |-> connection_type,
                                  ai_analysis |-> ai_analysis,
                                  analysis_timestamp |-> "utcnow",
                                  data_source |-> "Real AI Analysis",
                                  analysis_successful |-> TRUE],
                      calls |-> calls]

(***************************************************************************)
(* WeatherIntelligenceAgent: the deterministic classifier                  *)
(***************************************************************************)
HighRiskTerms == {"thunderstorm", "storm", "heavy rain", "heavy snow", "fog", "ice"}
MediumRiskTerms == {"rain", "snow", "cloudy", "overcast"}
LowRiskTerms == {"partly cloudy", "clear", "sunny", "fair"}

\* any(term in conditions for term in terms)
AnyTermIn(terms, conditions) == \E term \in terms : Contains(conditions, term)

DeterministicRisk_MediumFirst(conditions) ==
    IF AnyTermIn(MediumRiskTerms, conditions)
    THEN [level |-> "medium",
          description |-> "Moderate weather conditions may cause minor delays and require standard precautions."]
    ELSE IF AnyTermIn(HighRiskTerms, conditions)
    THEN [level |-> "high",
          description |-> "Severe weather conditions may cause significant flight delays and cancellations."]
    ELSE IF AnyTermIn(LowRiskTerms, conditions)
    THEN [level |-> "low",
          description |-> "Good weather conditions with minimal impact on flight operations."]
    ELSE [level |-> "low",
          description |-> "Good flying conditions with minimal weather impact."]

\* the if/elif chain over the lower-cased conditions
DeterministicRisk(conditions) ==
    IF AnyTermIn(HighRiskTerms, conditions)
    THEN [level |-> "high",
          description |-> "Severe weather conditions may cause significant flight delays and cancellations."]
    ELSE IF AnyTermIn(MediumRiskTerms, conditions)
    THEN [level |-> "medium",
          description |-> "Moderate weather conditions may cause minor delays and require standard precautions."]
    ELSE IF AnyTermIn(LowRiskTerms, conditions)
    THEN [level |-> "low",
          description |-> "Good weather conditions with minimal impact on flight operations."]
    ELSE [level |-> "low",
          description |-> "Good flying conditions with minimal weather impact."]

\* d with d[k] = v: weather_data['deterministic_risk'] = ...
SetKey(d, k, v) == [x \in (DOMAIN d) \cup {k} |-> IF x = k THEN v ELSE d[x]]

UnavailableRisk ==
    [level |-> "medium", description |-> "Weather assessment temporarily unavailable"]

\* _add_deterministic_risk_assessment
AddDeterministicRiskAssessment(weather_data) ==
    IF IsNone(weather_data)
    \* weather_data.get raises; weather_data is no dict
    THEN [conditions |-> Str("Weather data unavailable"), deterministic_risk |-> UnavailableRisk]
    ELSE LET conditions == Get(weather_data, "conditions", Str(""))
         IN  IF ~IsStr(conditions)
             \* .lower() raises; weather_data is a dict
             THEN SetKey(weather_data, "deterministic_risk", UnavailableRisk)
             ELSE SetKey(weather_data, "deterministic_risk",
                         DeterministicRisk(StrLower(conditions.str)))

(***************************************************************************)
(* DataAnalystAgent: airline code and flight number                        *)
(***************************************************************************)
\* [A-Z0-9]
IsCodeChar(c) == IsUpperChar(c) \/ IsDigit(c)

\* re.match(r'^([A-Z0-9]{1,3})', s): the longest prefix of 1 to 3 code characters,
\* "" when there is no match
RECURSIVE CodePrefix(_, _)
CodePrefix(s, max) ==
    IF max = 0 \/ s = "" \/ ~IsCodeChar(CharAt(s, 1)) THEN ""
    ELSE CharAt(s, 1) \o CodePrefix(Tail(s), max - 1)

\* str.split(): the maximal runs of non-whitespace characters
RECURSIVE SplitWords(_)
SplitWords(s) ==
    LET t == LStrip(s)
    IN  IF t = "" THEN <<>>
        ELSE LET n == IF \E i \in 1..Len(t) : IsSpace(CharAt(t, i))
                      THEN (CHOOSE i \in 1..Len(t) :
                               /\ IsSpace(CharAt(t, i))
                               /\ \A j \in 1..(i - 1) : ~IsSpace(CharAt(t, j))) - 1
                      ELSE Len(t)
             IN  <<SubSeq(t, 1, n)>> \o SplitWords(DropFirst(t, n))

AirlineMapping ==
    ("delta air lines" :> "DL") @@ ("delta" :> "DL") @@
    ("american airlines" :> "AA") @@ ("american" :> "AA") @@
    ("united airlines" :> "UA") @@ ("united" :> "UA") @@
    ("southwest airlines" :> "WN") @@ ("southwest" :> "WN") @@
    ("jetblue airways" :> "B6") @@ ("jetblue" :> "B6") @@
    ("alaska airlines" :> "AS") @@ ("alaska" :> "AS") @@
    ("spirit airlines" :> "NK") @@ ("spirit" :> "NK") @@
    ("frontier airlines" :> "F9") @@ ("frontier" :> "F9") @@
    ("hawaiian airlines" :> "HA") @@ ("hawaiian" :> "HA") @@
    ("allegiant air" :> "G4") @@ ("allegiant" :> "G4")

\* words[0][:1] + words[1][:1]
Initials(words) == SubSeq(words[1], 1, 1) \o SubSeq(words[2], 1, 1)

\* the fallbacks of _extract_airline_code on the airline name
CodeFromName(airline_name) ==
    IF ~IsStr(airline_name) THEN Raised("AttributeError: no attribute 'lower'")
    ELSE LET airline_key == StrStrip(StrLower(airline_name.str))
             words == SplitWords(StrUpper(airline_name.str))
         IN  IF airline_key \in DOMAIN AirlineMapping
             THEN Returned(AirlineMapping[airline_key])
             ELSE IF Len(airline_name.str) >= 2 /\ Len(words) >= 2
             THEN Returned(Initials(words))
             ELSE Returned("Unknown")

\* the body of _extract_airline_code, inside its try
ExtractAirlineCodeBody(flight_number, airline_name) ==
    LET from_number == IF IsStr(flight_number) /\ Len(flight_number.str) >= 2
                       THEN CodePrefix(StrUpper(flight_number.str), 3) ELSE ""
    IN  IF from_number # "" THEN Returned(from_number) ELSE CodeFromName(airline_name)

ExtractAirlineCode_InitialsFirst(flight_number, airline_name) ==
    LET from_number == IF IsStr(flight_number) /\ Len(flight_number.str) >= 2
                       THEN CodePrefix(StrUpper(flight_number.str), 3) ELSE ""
        words == IF IsStr(airline_name) THEN SplitWords(StrUpper(airline_name.str)) ELSE <<>>
    IN  IF from_number # "" THEN from_number
        ELSE IF Len(words) >= 2 THEN Initials(words)
        ELSE LET r == CodeFromName(airline_name)
             IN  IF IsRaised(r) THEN "Unknown" ELSE r.value

\* _extract_airline_code: any exception of the body becomes 'Unknown'
ExtractAirlineCode(flight_number, airline_name) ==
    LET r == ExtractAirlineCodeBody(flight_number, airline_name)
    IN  IF IsRaised(r) THEN "Unknown" ELSE r.value

\* re.sub(r'^[^A-Z0-9]+', '', s)
RECURSIVE StripLeadingSeparators(_)
StripLeadingSeparators(s) ==
    IF s # "" /\ ~IsCodeChar(CharAt(s, 1)) THEN StripLeadingSeparators(Tail(s)) ELSE s

CleanFlightNumber_KeepSeparators(flight_number, airline_code) ==
    IF ~Truthy(flight_number) \/ ~Truthy(airline_code) \/ airline_code = Str("Unknown")
    THEN flight_number
    ELSE IF ~IsStr(flight_number) \/ ~IsStr(airline_code) THEN flight_number
    ELSE LET flight_upper == StrStrip(StrUpper(flight_number.str))
             airline_upper == StrStrip(StrUpper(airline_code.str))
             clean_number == DropFirst(flight_upper, Len(airline_upper))
         IN  IF StartsWith(flight_upper, airline_upper) /\ clean_number # ""
             THEN Str(clean_number)
             ELSE flight_number

\* _clean_flight_number: the tagged value returned
CleanFlightNumber(flight_number, airline_code) ==
    IF ~Truthy(flight_number) \/ ~Truthy(airline_code) \/ airline_code = Str("Unknown")
    THEN flight_number
    \* .upper() raises for a value that is no str: the except returns flight_number
    ELSE IF ~IsStr(flight_number) \/ ~IsStr(airline_code) THEN flight_number
    ELSE LET flight_upper == StrStrip(StrUpper(flight_number.str))
             airline_upper == StrStrip(StrUpper(airline_code.str))
             clean_number ==
                 StripLeadingSeparators(StrStrip(DropFirst(flight_upper, Len(airline_upper))))
         IN  IF StartsWith(flight_upper, airline_upper) /\ clean_number # ""
             THEN Str(clean_number)
             ELSE flight_number

(***************************************************************************)
(* DataAnalystAgent: duration formatting                                   *)
(***************************************************************************)
FormatDurationFromMinutes_ZeroAsMinutes(minutes) ==
    IF minutes < 0 THEN "Unknown"
    ELSE LET hours == minutes \div 60
             mins == minutes % 60
         IN  IF hours > 0 /\ mins > 0 THEN ToString(hours) \o "h " \o ToString(mins) \o "m"
             ELSE IF hours > 0 THEN ToString(hours) \o "h"
             ELSE ToString(mins) \o "m"

\* _format_duration_from_minutes
FormatDurationFromMinutes(minutes) ==
    IF minutes <= 0 THEN "Unknown"
    ELSE LET hours == minutes \div 60
             mins == minutes % 60
         IN  IF hours > 0 /\ mins > 0 THEN ToString(hours) \o "h " \o ToString(mins) \o "m"
             ELSE IF hours > 0 THEN ToString(hours) \o "h"
             ELSE ToString(mins) \o "m"

\* a float: a finite one is given in tenths, the others are inf and nan
PyFloat(tenths) == [float |-> "finite", tenths |-> tenths]
PyInf == [float |-> "inf"]
PyNan == [float |-> "nan"]
PyBool(b) == [bool |-> b]

\* int(v) for a tagged value: [ok |-> TRUE, val |-> n], or [ok |-> FALSE, error |-> e]
\* with e the exception int() raises.  A float is truncated towards zero.
IntOf(v) ==
    IF "int" \in DOMAIN v THEN [ok |-> TRUE, val |-> v.int]
    ELSE IF "bool" \in DOMAIN v THEN [ok |-> TRUE, val |-> IF v.bool THEN 1 ELSE 0]
    ELSE IF "str" \in DOMAIN v
    THEN (IF PyInt(v.str).ok THEN [ok |-> TRUE, val |-> PyInt(v.str).val]
          ELSE [ok |-> FALSE, error |-> "ValueError"])
    ELSE IF "float" \in DOMAIN v
    THEN (IF v.float = "finite"
          THEN [ok |-> TRUE,
                val |-> IF v.tenths >= 0 THEN v.tenths \div 10
                        ELSE 0 - ((0 - v.tenths) \div 10)]
          ELSE IF v.float = "nan" THEN [ok |-> FALSE, error |-> "ValueError"]
          ELSE [ok |-> FALSE, error |-> "OverflowError"])
    ELSE [ok |-> FALSE, error |-> "TypeError"]

\* _format_duration: the string returned, or the exception that escapes the
\* except (ValueError, TypeError) clause
FormatDuration(minutes) ==
    CHOOSE out \in
        {IF ~converted.ok
         THEN (IF converted.error \in {"ValueError", "TypeError"} THEN Returned("0m")
               ELSE Raised(converted.error))
         ELSE LET hours == converted.val \div 60
                  mins == converted.val % 60
              IN  IF hours > 0 /\ mins > 0
                  THEN Returned(ToString(hours) \o "h " \o ToString(mins) \o "m")
                  ELSE IF hours > 0 THEN Returned(ToString(hours) \o "h")
                  ELSE Returned(ToString(mins) \o "m")
            : converted \in {IntOf(minutes)}}
        : TRUE

(***************************************************************************)
(* DataAnalystAgent: times and cities                                      *)
(***************************************************************************)
\* the longest prefix of s of at most max digits
RECURSIVE TakeDigits(_, _)
TakeDigits(s, max) ==
    IF max = 0 \/ s = "" \/ ~IsDigit(CharAt(s, 1)) THEN ""
    ELSE CharAt(s, 1) \o TakeDigits(Tail(s), max - 1)

IsLeapYear(y) == (y % 4 = 0 /\ y % 100 # 0) \/ y % 400 = 0

DaysInMonth(y, m) ==
    IF m = 2 THEN (IF IsLeapYear(y) THEN 29 ELSE 28)
    ELSE IF m \in {4, 6, 9, 11} THEN 30 ELSE 31

\* the directives of the format "%Y-%m-%d %H:%M"
StrptimeFormat == <<"Y", "-", "m", "-", "d", " ", "H", ":", "M">>

\* matches s against the directives from number k on; fields are the numbers read
\* so far.  %Y is four digits, the other fields one or two; a literal matches
\* itself; the blank matches one or more whitespace characters.  The numbers
\* <<year, month, day, hour, minute>>, or <<>> when s does not match.  (A local
\* variable of the code is a name bound over a one-element set, so that its value
\* is computed once: CHOOSE out \in {... x ... : x \in {value}} : TRUE.)
RECURSIVE StrptimeFrom(_, _, _)
StrptimeFrom(s, k, fields) ==
    IF k > Len(StrptimeFormat) THEN (IF s = "" THEN fields ELSE <<>>)
    ELSE LET directive == StrptimeFormat[k]
         IN  IF directive = " "
             THEN IF s # "" /\ IsSpace(CharAt(s, 1))
                  THEN StrptimeFrom(LStrip(s), k + 1, fields)
                  ELSE <<>>
             ELSE IF directive \in {"-", ":"}
             THEN IF StartsWith(s, directive)
                  THEN StrptimeFrom(DropFirst(s, 1), k + 1, fields)
                  ELSE <<>>
             ELSE CHOOSE out \in
                      {IF digits = "" \/ (directive = "Y" /\ Len(digits) < 4) THEN <<>>
                       ELSE StrptimeFrom(DropFirst(s, Len(digits)), k + 1,
                                         Append(fields, DigitsValue(digits, 0)))
                          : digits \in {TakeDigits(s, IF directive = "Y" THEN 4 ELSE 2)}}
                      : TRUE

\* datetime.strptime(s, "%Y-%m-%d %H:%M"): [ok |-> TRUE, hour, minute] or
\* [ok |-> FALSE] for the ValueError
Strptime(s) ==
    CHOOSE out \in
        {IF /\ f # <<>>
            /\ f[1] >= 1
            /\ f[2] \in 1..12
            /\ f[3] \in 1..DaysInMonth(f[1], f[2])
            /\ f[4] \in 0..23
            /\ f[5] \in 0..59
         THEN [ok |-> TRUE, hour |-> f[4], minute |-> f[5]]
         ELSE [ok |-> FALSE]
            : f \in {StrptimeFrom(s, 1, <<>>)}}
        : TRUE

\* a number as two digits, zero padded
TwoDigits(n) == IF n < 10 THEN "0" \o ToString(n) ELSE ToString(n)

\* str.lstrip("0")
RECURSIVE LStripZeros(_)
LStripZeros(s) == IF s # "" /\ CharAt(s, 1) = "0" THEN LStripZeros(Tail(s)) ELSE s

\* the 24-hour clock with the suffix: strftime("%H:%M %p")
Strftime12_Hour24(hour, minute) ==
    TwoDigits(hour) \o ":" \o TwoDigits(minute) \o (IF hour < 12 THEN " AM" ELSE " PM")

\* strftime("%I:%M %p")
Strftime12(hour, minute) ==
    TwoDigits(IF hour % 12 = 0 THEN 12 ELSE hour % 12) \o ":" \o TwoDigits(minute)
        \o (IF hour < 12 THEN " AM" ELSE " PM")

\* _format_serpapi_time
FormatSerpapiTime(time_str) ==
    IF time_str = "" \/ time_str = "Unknown" THEN "Unknown"
    ELSE CHOOSE out \in
             {IF time_obj.ok THEN LStripZeros(Strftime12(time_obj.hour, time_obj.minute))
              ELSE time_str
                 : time_obj \in {Strptime(time_str)}}
             : TRUE

AirportCityMapping ==
    ("JFK" :> "New York") @@ ("SFO" :> "San Francisco") @@ ("LAX" :> "Los Angeles") @@
    ("ORD" :> "Chicago") @@ ("DFW" :> "Dallas") @@ ("ATL" :> "Atlanta") @@
    ("DEN" :> "Denver") @@ ("SEA" :> "Seattle") @@ ("LAS" :> "Las Vegas") @@
    ("IAD" :> "Washington") @@ ("DCA" :> "Washington") @@ ("LGA" :> "New York") @@
    ("BWI" :> "Baltimore") @@ ("MDW" :> "Chicago") @@ ("SAN" :> "San Diego") @@
    ("TPA" :> "Tampa") @@ ("PDX" :> "Portland") @@ ("AUS" :> "Austin") @@
    ("CLT" :> "Charlotte") @@ ("MSP" :> "Minneapolis") @@ ("DTW" :> "Detroit") @@
    ("BOS" :> "Boston") @@ ("FLL" :> "Fort Lauderdale") @@ ("SJC" :> "San Jose") @@
    ("HNL" :> "Honolulu") @@ ("ANC" :> "Anchorage") @@ ("MIA" :> "Miami") @@
    ("MCO" :> "Orlando") @@ ("PHL" :> "Philadelphia") @@ ("IAH" :> "Houston") @@
    ("PHX" :> "Phoenix") @@ ("EWR" :> "Newark") @@ ("STL" :> "St. Louis") @@
    ("DAL" :> "Dallas") @@ ("BNA" :> "Nashville") @@ ("MCI" :> "Kansas City") @@
    ("CVG" :> "Cincinnati") @@ ("SLC" :> "Salt Lake City") @@ ("CLE" :> "Cleveland") @@
    ("SMF" :> "Sacramento") @@ ("OAK" :> "Oakland") @@ ("SNA" :> "Santa Ana") @@
    ("RDU" :> "Raleigh") @@ ("IND" :> "Indianapolis") @@ ("CMH" :> "Columbus") @@
    ("JAX" :> "Jacksonville") @@ ("RSW" :> "Fort Myers") @@ ("COS" :> "Colorado Springs") @@
    ("PIT" :> "Pittsburgh") @@ ("BUF" :> "Buffalo") @@ ("BUR" :> "Burbank") @@
    ("ABQ" :> "Albuquerque") @@ ("LGB" :> "Long Beach") @@ ("ONT" :> "Ontario") @@
    ("OGG" :> "Kahului") @@ ("KOA" :> "Kona") @@ ("MKE" :> "Milwaukee") @@
    ("OMA" :> "Omaha") @@ ("OKC" :> "Oklahoma City") @@ ("TUL" :> "Tulsa") @@
    ("ICT" :> "Wichita") @@ ("DSM" :> "Des Moines") @@ ("ROC" :> "Rochester") @@
    ("ALB" :> "Albany") @@ ("SYR" :> "Syracuse") @@ ("PVD" :> "Providence") @@
    ("BDL" :> "Hartford") @@ ("PWM" :> "Portland") @@ ("BGR" :> "Bangor") @@
    ("MHT" :> "Manchester") @@ ("BTV" :> "Burlington") @@ ("GRR" :> "Grand Rapids") @@
    ("FNT" :> "Flint") @@ ("LAN" :> "Lansing") @@ ("MSN" :> "Madison") @@
    ("GRB" :> "Green Bay") @@ ("FAR" :> "Fargo") @@ ("BIS" :> "Bismarck") @@
    ("FSD" :> "Sioux Falls") @@ ("RAP" :> "Rapid City") @@ ("BIL" :> "Billings") @@
    ("MSO" :> "Missoula") @@ ("GTF" :> "Great Falls") @@ ("BOI" :> "Boise") @@
    ("GEG" :> "Spokane") @@ ("FAI" :> "Fairbanks") @@ ("JNU" :> "Juneau")

\* _extract_city_from_airport_code
ExtractCityFromAirportCode(airport_code) ==
    IF airport_code \in DOMAIN AirportCityMapping THEN AirportCityMapping[airport_code]
    ELSE airport_code

AirportSuffixes ==
    <<"International Airport", "International", "Airport", "Regional", "Municipal", "Field">>

\* the suffix loop of _extract_city_from_airport_name, from suffix number i on
RECURSIVE StripSuffixes(_, _)
StripSuffixes(city, i) ==
    IF i > Len(AirportSuffixes) THEN city
    ELSE IF EndsWith(city, AirportSuffixes[i])
    THEN StripSuffixes(StrStrip(DropLast(city, Len(AirportSuffixes[i]))), i + 1)
    ELSE StripSuffixes(city, i + 1)

\* _extract_city_from_airport_name
ExtractCityFromAirportName(airport_name) ==
    IF airport_name = "" \/ airport_name = "Unknown" THEN "Unknown"
    ELSE LET city == StripSuffixes(airport_name, 1)
         IN  IF city # "" THEN city ELSE "Unknown"

(***************************************************************************)
(* DataAnalystAgent: the search-provider lookup                            *)
(***************************************************************************)
MonthNames ==
    <<"january", "february", "march", "april", "may", "june", "july", "august",
      "september", "october", "november", "december">>

\* the formats _format_date_for_serpapi tries, in order, as directives and literals
DateFormats ==
    <<<<"%Y", "-", "%m", "-", "%d">>,
      <<"%m", "/", "%d", "/", "%Y">>,
      <<"%B", " ", "%d", ",", " ", "%Y">>,
      <<"%B", " ", "%d", "th", ",", " ", "%Y">>,
      <<"%B", " ", "%d", "st", ",", " ", "%Y">>,
      <<"%B", " ", "%d", "nd", ",", " ", "%Y">>,
      <<"%B", " ", "%d", "rd", ",", " ", "%Y">>>>

\* matches s against the directives of format from number k on, ignoring case; date
\* collects the fields read so far.  %Y is four digits, %m and %d one or two, %B a
\* month name; the blank matches one or more whitespace characters.  The record
\* [Y, m, d] of the numbers read, or <<>> when s does not match.
RECURSIVE MatchDate(_, _, _, _)
MatchDate(s, format, k, date) ==
    IF k > Len(format) THEN (IF s = "" THEN date ELSE <<>>)
    ELSE LET directive == format[k]
         IN  IF directive = " "
             THEN IF s # "" /\ IsSpace(CharAt(s, 1))
                  THEN MatchDate(LStrip(s), format, k + 1, date)
                  ELSE <<>>
             ELSE IF directive = "%B"
             THEN IF \E m \in 1..12 : StartsWith(StrLower(s), MonthNames[m])
                  THEN CHOOSE out \in
                           {MatchDate(DropFirst(s, Len(MonthNames[m])), format, k + 1,
                                      date @@ ("m" :> m))
                               : m \in {n \in 1..12 : StartsWith(StrLower(s), MonthNames[n])}}
                           : TRUE
                  ELSE <<>>
             ELSE IF directive \in {"%Y", "%m", "%d"}
             THEN CHOOSE out \in
                      {IF digits = "" \/ (directive = "%Y" /\ Len(digits) < 4) THEN <<>>
                       ELSE MatchDate(DropFirst(s, Len(digits)), format, k + 1,
                                      date @@ (CharAt(directive, 2) :> DigitsValue(digits, 0)))
                          : digits \in {TakeDigits(s, IF directive = "%Y" THEN 4 ELSE 2)}}
                      : TRUE
             ELSE IF StartsWith(StrLower(s), directive)
             THEN MatchDate(DropFirst(s, Len(directive)), format, k + 1, date)
             ELSE <<>>

\* datetime.strptime(s, format): the date read, or <<>> for the ValueError
StrptimeDate(s, format) ==
    CHOOSE out \in
        {IF /\ date # <<>>
            /\ date.Y >= 1
            /\ date.m \in 1..12
            /\ date.d \in 1..DaysInMonth(date.Y, date.m)
         THEN date ELSE <<>>
            : date \in {MatchDate(s, format, 1, <<>>)}}
        : TRUE

\* the number of occurrences of the character c in s
RECURSIVE CountChar(_, _)
CountChar(s, c) ==
    IF s = "" THEN 0 ELSE (IF CharAt(s, 1) = c THEN 1 ELSE 0) + CountChar(Tail(s), c)

\* the loop over date_formats, from format number i on; strftime("%Y") of the C
\* library does not pad a year below 1000
RECURSIVE FormatDateFrom(_, _)
FormatDateFrom(date, i) ==
    IF i > Len(DateFormats) THEN date
    ELSE CHOOSE out \in
             {IF dt # <<>>
              THEN ToString(dt.Y) \o "-" \o TwoDigits(dt.m) \o "-" \o TwoDigits(dt.d)
              ELSE FormatDateFrom(date, i + 1)
                 : dt \in {StrptimeDate(date, DateFormats[i])}}
             : TRUE

\* _format_date_for_serpapi, for a date string
FormatDateForSerpapi(date) ==
    IF Len(date) = 10 /\ CountChar(date, "-") = 2 THEN date
    ELSE FormatDateFrom(date, 1)

(***************************************************************************)
(* DataAnalystAgent._parse_flight_info                                     *)
(***************************************************************************)
EmptyDict == <<>>

\* airline code + cleaned flight number of a segment
FormattedFlightNumber(flight_number, airline_name) ==
    CHOOSE out \in
        {airline_code \o CleanFlightNumber(Str(flight_number), Str(airline_code)).str
            : airline_code \in {ExtractAirlineCode(Str(flight_number), Str(airline_name))}}
        : TRUE

\* the airport dict of a connection's departure or arrival
ConnectionEnd(airport) ==
    [airport |-> [code |-> Get(airport, "id", "Unknown"),
                  name |-> Get(airport, "name", "Unknown"),
                  city |-> ExtractCityFromAirportCode(Get(airport, "id", "Unknown"))],
     time |-> FormatSerpapiTime(Get(airport, "time", "Unknown"))]

\* layover_info built from the provider's layover entry (0-based i < len(serpapi_layovers))
ProvidedLayoverInfo(flights, layover_data, i) ==
    LET given == Get(layover_data, "duration", 0)
        layover_duration_minutes == IF given <= 0 THEN 90 ELSE given
        layover_airport_code == Get(layover_data, "id", "")
        layover_airport_name == Get(layover_data, "name", "")
        by_code == ExtractCityFromAirportCode(layover_airport_code)
        layover_city == IF by_code = layover_airport_code /\ layover_airport_name # ""
                        THEN ExtractCityFromAirportName(layover_airport_name)
                        ELSE by_code
    IN  [airport |-> IF layover_airport_code # "" THEN layover_airport_code ELSE "Unknown",
         airport_name |-> IF layover_airport_name # "" THEN layover_airport_name
                          ELSE "Unknown Airport",
         city |-> IF layover_city # "" THEN layover_city ELSE "Unknown City",
         duration |-> FormatDurationFromMinutes(layover_duration_minutes),
         arrival_time |->
             FormatSerpapiTime(Get(Get(flights[i + 1], "arrival_airport", EmptyDict), "time", "")),
         departure_time |->
             FormatSerpapiTime(Get(Get(flights[i + 2], "departure_airport", EmptyDict), "time", "")),
         overnight |-> Get(layover_data, "overnight", FALSE)]

\* layover_info built from the next segment when the provider gave no entry
SynthesizedLayoverInfo(flights, i) ==
    LET next_departure == Get(flights[i + 2], "departure_airport", EmptyDict)
    IN  [airport |-> Get(next_departure, "id", "Unknown"),
         airport_name |-> Get(next_departure, "name", "Unknown Airport"),
         city |-> ExtractCityFromAirportCode(Get(next_departure, "id", "Unknown")),
         duration |-> "Unknown",
         arrival_time |->
             FormatSerpapiTime(Get(Get(flights[i + 1], "arrival_airport", EmptyDict), "time", "")),
         departure_time |-> FormatSerpapiTime(Get(next_departure, "time", "")),
         overnight |-> FALSE]

ConnectionLayover_ProvidedOnly(flights, serpapi_layovers, i) ==
    IF i < Len(flights) - 1 /\ i < Len(serpapi_layovers)
    THEN "layoverInfo" :> ProvidedLayoverInfo(flights, serpapi_layovers[i + 1], i)
    ELSE EmptyDict

\* what the if / elif after the connection is built adds to the connection of
\* segment i (0-based): the key layoverInfo, or nothing
ConnectionLayover(flights, serpapi_layovers, i) ==
    IF i < Len(flights) - 1 /\ i < Len(serpapi_layovers)
    THEN "layoverInfo" :> ProvidedLayoverInfo(flights, serpapi_layovers[i + 1], i)
    ELSE IF i < Len(flights) - 1
    THEN "layoverInfo" :> SynthesizedLayoverInfo(flights, i)
    ELSE EmptyDict

\* the connection object of segment i (0-based), with layoverInfo when it has one
Connection(flights, serpapi_layovers, airline_name, i) ==
    LET segment == flights[i + 1]
    IN  [id |-> "segment_" \o ToString(i),
         flight_number |->
             FormattedFlightNumber(Get(segment, "flight_number", "Unknown"),
                                   Get(segment, "airline", airline_name)),
         aircraft |-> Get(segment, "airplane", Get(segment, "aircraft", "Unknown")),
         duration |-> FormatDurationFromMinutes(Get(segment, "duration", 0)),
         departure |-> ConnectionEnd(Get(segment, "departure_airport", EmptyDict)),
         arrival |-> ConnectionEnd(Get(segment, "arrival_airport", EmptyDict))]
            @@ ConnectionLayover(flights, serpapi_layovers, i)

\* the entry appended to layovers for a connection that has layoverInfo
LayoverEntry(layover_info, date) ==
    [airport |-> layover_info.airport,
     airport_name |-> layover_info.airport_name,
     city |-> layover_info.city,
     duration |-> layover_info.duration,
     arrival_time |-> layover_info.arrival_time,
     departure_time |-> layover_info.departure_time,
     travel_date |-> date]

\* the layovers of the connections, last connection first
RECURSIVE LayoversOf_Reversed(_, _)
LayoversOf_Reversed(connections, date) ==
    IF connections = <<>> THEN <<>>
    ELSE LayoversOf_Reversed(Tail(connections), date)
             \o (IF "layoverInfo" \in DOMAIN Head(connections)
                 THEN <<LayoverEntry(Head(connections).layoverInfo, date)>> ELSE <<>>)

\* the connections that carry layoverInfo, in order, as layovers entries
RECURSIVE LayoversOf(_, _)
LayoversOf(connections, date) ==
    IF connections = <<>> THEN <<>>
    ELSE (IF "layoverInfo" \in DOMAIN Head(connections)
          THEN <<LayoverEntry(Head(connections).layoverInfo, date)>> ELSE <<>>)
             \o LayoversOf(Tail(connections), date)

\* _parse_flight_info, for a payload that is a dict of dicts: the flight record, or
\* None when the payload has no segments
ParseFlightInfo(flight_data, origin, destination, date) ==
    LET flights == Get(flight_data, "flights", <<>>)
    IN  IF flights = <<>> THEN None
        ELSE
        LET first_flight == flights[1]
            airline_name == Get(first_flight, "airline", "Unknown")
            flight_number == Get(first_flight, "flight_number", "Unknown")
            airline_code == ExtractAirlineCode(Str(flight_number), Str(airline_name))
            departure_airport == Get(first_flight, "departure_airport", EmptyDict)
            arrival_airport == Get(flights[Len(flights)], "arrival_airport", EmptyDict)
            total_duration_minutes == Get(flight_data, "total_duration", 0)
            serpapi_layovers == Get(flight_data, "layovers", <<>>)
            has_layovers == Len(serpapi_layovers) > 0 \/ Len(flights) > 1
        IN  CHOOSE flight_info \in {
            LET layovers == LayoversOf(connections, date)
            IN
            [airline_name |-> airline_name,
             airline_code |-> airline_code,
             flight_number |-> FormattedFlightNumber(flight_number, airline_name),
             origin |-> origin,
             destination |-> destination,
             origin_airport_code |-> origin,
             destination_airport_code |-> destination,
             departure_time |-> FormatSerpapiTime(Get(departure_airport, "time", "Unknown")),
             arrival_time |-> FormatSerpapiTime(Get(arrival_airport, "time", "Unknown")),
             duration |-> IF total_duration_minutes > 0
                          THEN FormatDurationFromMinutes(total_duration_minutes)
                          ELSE "Unknown",
             price |-> Get(flight_data, "price", 0),
             aircraft |-> Get(first_flight, "airplane",
                              Get(first_flight, "aircraft",
                                  Get(first_flight, "aircraft_type", "Unknown"))),
             layovers |-> layovers,
             connections |-> connections,
             flights |-> flights,
             number_of_stops |-> Len(layovers),
             total_duration |-> total_duration_minutes,
             date |-> date,
             data_source |-> "SerpAPI",
             type |-> Get(flight_data, "type", "One way")]
            : connections \in
                {IF has_layovers
                 THEN [j \in 1..Len(flights) |->
                          Connection(flights, serpapi_layovers, airline_name, j - 1)]
                 ELSE <<>>}}
            : TRUE

\* the message of the HTTPError raise_for_status raises for a 4xx or 5xx status
HttpErrorMessage(status, reason) ==
    ToString(status) \o (IF status < 500 THEN " Client Error: " ELSE " Server Error: ")
        \o reason \o " for url: https://serpapi.com/search"

\* the request requests.get sends to the flight search
FlightSearchRequest(origin, destination, date) ==
    [url |-> "https://serpapi.com/search", engine |-> "google_flights",
     departure_id |-> origin, arrival_id |-> destination,
     outbound_date |-> FormatDateForSerpapi(date)]

\* the result for a rate-limited lookup
RateLimitResult ==
    [error |-> "SerpAPI rate limit exceeded",
     message |-> "Please upgrade your SerpAPI plan or try again later",
     account_status |-> "Rate limit exceeded"]

\* what the except clauses of _call_serpapi_flights make of the message of a
\* RequestException (a connection error, an HTTPError, a body that is not JSON)
RequestFailed_AlwaysNone(error_message) == None

RequestFailed(error_message) ==
    IF Contains(error_message, "429") \/ Contains(error_message, "Too Many Requests")
    THEN RateLimitResult
    ELSE None

\* whether data[key] is there and not empty
HasFlights(data, key) == key \in DOMAIN data /\ data[key] # <<>>

\* _call_serpapi_flights for the provider's reply: a raised RequestException, or a
\* response [status, reason, json] whose json is an object, an array or no JSON
CallSerpapiFlights(reply) ==
    IF IsRaised(reply) THEN RequestFailed(reply.raised)
    ELSE IF reply.status >= 400
    THEN RequestFailed(HttpErrorMessage(reply.status, reply.reason))
    ELSE IF reply.json.kind = "invalid" THEN RequestFailed(reply.json.message)
    ELSE IF reply.json.kind # "object" THEN None
    ELSE IF \/ HasFlights(reply.json.value, "best_flights")
            \/ HasFlights(reply.json.value, "other_flights")
            \/ HasFlights(reply.json.value, "flights")
    THEN reply.json.value
    ELSE None

\* _parse_flight_info for an itinerary of the response: a null is no dict
ParseItinerary(flight_data, origin, destination, date) ==
    IF IsNone(flight_data) THEN None
    ELSE ParseFlightInfo(flight_data, origin, destination, date)

\* the loop of _extract_flight_data: the itineraries that normalise, in order
RECURSIVE ParsedFlights(_, _, _, _)
ParsedFlights(all_flights, origin, destination, date) ==
    IF all_flights = <<>> THEN <<>>
    ELSE CHOOSE out \in
             {(IF IsNone(flight_info) THEN <<>> ELSE <<flight_info>>)
                  \o ParsedFlights(Tail(all_flights), origin, destination, date)
                 : flight_info \in {ParseItinerary(Head(all_flights), origin, destination, date)}}
             : TRUE

\* _extract_flight_data
ExtractFlightData(serpapi_data, origin, destination, date) ==
    ParsedFlights(Get(serpapi_data, "best_flights", <<>>)
                      \o Get(serpapi_data, "other_flights", <<>>),
                  origin, destination, date)

\* a list argument that may be None instead
PyList(list) == [list |-> list]
\* v or []
OrEmptyList(v) == IF "list" \in DOMAIN v THEN v.list ELSE <<>>

\* the first n elements of a list
Take(list, n) == SubSeq(list, 1, IF Len(list) < n THEN Len(list) ELSE n)

AnalyzeRouteOf_NoLimit(reply, origin, destination, date, connections) ==
    CHOOSE out \in
        {IF IsNone(flight_data)
         THEN [success |-> FALSE, message |-> "No flights found for this route",
               flights |-> <<>>]
         ELSE [success |-> TRUE,
               flights |-> ExtractFlightData(flight_data, origin, destination, date),
               route_info |-> [origin |-> origin, destination |-> destination,
                               date |-> date,
                               connections |-> OrEmptyList(connections)]]
            : flight_data \in {CallSerpapiFlights(reply)}}
        : TRUE

\* analyze_route for the provider's reply
AnalyzeRouteOf(reply, origin, destination, date, connections) ==
    CHOOSE out \in
        {IF IsNone(flight_data)
         THEN [success |-> FALSE, message |-> "No flights found for this route",
               flights |-> <<>>]
         ELSE [success |-> TRUE,
               flights |-> Take(ExtractFlightData(flight_data, origin, destination, date), 10),
               route_info |-> [origin |-> origin, destination |-> destination,
                               date |-> date,
                               connections |-> OrEmptyList(connections)]]
            : flight_data \in {CallSerpapiFlights(reply)}}
        : TRUE

(***************************************************************************)
(* DataAnalystAgent: the warehouse lookup                                  *)
(***************************************************************************)
\* a datetime of a warehouse row
PyDatetime(Y, m, d, H, M, S) == [datetime |-> [Y |-> Y, m |-> m, d |-> d, H |-> H, M |-> M, S |-> S]]

\* strftime('%Y-%m-%d %H:%M:%S') for a datetime, str() for another value that is
\* truthy, '' otherwise
TimeText(time) ==
    IF "datetime" \in DOMAIN time
    THEN ToString(time.datetime.Y) \o "-" \o TwoDigits(time.datetime.m) \o "-"
             \o TwoDigits(time.datetime.d) \o " " \o TwoDigits(time.datetime.H) \o ":"
             \o TwoDigits(time.datetime.M) \o ":" \o TwoDigits(time.datetime.S)
    ELSE IF IsStr(time) /\ time.str # "" THEN time.str
    ELSE ""

\* _convert_layovers_to_connections_format, for a list of dicts
ConvertLayoversToConnectionsFormat(layovers) ==
    [i \in DOMAIN layovers |->
        [city |-> Get(layovers[i], "city", "Unknown"),
         airport |-> Get(layovers[i], "airport_code", "Unknown"),
         airport_code |-> Get(layovers[i], "airport_code", "Unknown"),
         duration |-> Get(layovers[i], "layover_duration_minutes", "0"),
         travel_time |-> Get(layovers[i], "travel_time_minutes", "0"),
         arrival_time |-> TimeText(Get(layovers[i], "arrival_time", None)),
         departure_time |-> TimeText(Get(layovers[i], "departure_time", None))]]

\* the query get_flight_data_from_bigquery sends
FlightDataQuery(airline_code, flight_number, date, airline_name) ==
    [table |-> "argon-acumen-268900.airline_data.flight_data",
     airline_code |-> StrUpper(airline_code), airline_name |-> StrUpper(airline_name),
     flight_number |-> StrUpper(flight_number), date |-> date]

\* what get_flight_data_from_bigquery makes of the row it takes: the connections of
\* its layovers, which are a list or the JSON text of one, or an empty list of
\* connections when the row has neither; a list is PyList(list).  len() and [0] of
\* the log lines raise for JSON text that is a number or an object.
FlightDataOfRow(flight_data) ==
    IF "layovers" \in DOMAIN flight_data
           /\ \/ IsStr(flight_data.layovers) /\ flight_data.layovers.str # ""
              \/ "list" \in DOMAIN flight_data.layovers /\ flight_data.layovers.list # <<>>
    THEN IF IsStr(flight_data.layovers)
         THEN CHOOSE out \in
                  {CASE layovers_data.kind = "invalid" ->
                            Returned(SetKey(flight_data, "connections", PyList(<<>>)))
                     [] layovers_data.kind = "array" ->
                            Returned(SetKey(flight_data, "connections",
                                            PyList(ConvertLayoversToConnectionsFormat(layovers_data.value))))
                     [] layovers_data.kind = "string" ->
                            Returned(SetKey(flight_data, "connections", PyList(<<>>)))
                     [] OTHER -> Raised("TypeError or KeyError")
                      : layovers_data \in {JsonLoads(flight_data.layovers.str)}}
                  : TRUE
         ELSE Returned(SetKey(flight_data, "connections",
                              PyList(ConvertLayoversToConnectionsFormat(flight_data.layovers.list))))
    ELSE IF "connections" \notin DOMAIN flight_data
    THEN Returned(SetKey(flight_data, "connections", PyList(<<>>)))
    ELSE IF IsNone(flight_data.connections)
    THEN Returned(SetKey(flight_data, "connections", PyList(<<>>)))
    ELSE Returned(flight_data)

GetFlightDataFromBigqueryOf_LastRow(available, airline_code, flight_number, date, airline_name, reply) ==
    IF ~available THEN [result |-> None, queries |-> <<>>]
    ELSE [result |-> IF IsRaised(reply) THEN None
                     ELSE IF reply.rows = <<>> THEN None
                     ELSE IF IsRaised(FlightDataOfRow(reply.rows[Len(reply.rows)])) THEN None
                     ELSE FlightDataOfRow(reply.rows[Len(reply.rows)]).value,
          queries |-> <<FlightDataQuery(airline_code, flight_number, date, airline_name)>>]

\* get_flight_data_from_bigquery with the warehouse client constructed or not:
\* [result |-> the value returned, queries |-> the queries sent]; reply is the
\* exception of the query or its rows
GetFlightDataFromBigqueryOf(available, airline_code, flight_number, date, airline_name, reply) ==
    IF ~available THEN [result |-> None, queries |-> <<>>]
    ELSE [result |-> IF IsRaised(reply) THEN None
                     ELSE IF reply.rows = <<>> THEN None
                     ELSE IF IsRaised(FlightDataOfRow(reply.rows[1])) THEN None
                     ELSE FlightDataOfRow(reply.rows[1]).value,
          queries |-> <<FlightDataQuery(airline_code, flight_number, date, airline_name)>>]

(***************************************************************************)
(* WeatherIntelligenceAgent: analyze_weather_conditions                    *)
(***************************************************************************)
AirportMapping ==
    ("ATL" :> [city |-> "Atlanta", state |-> "GA",
         name |-> "Hartsfield-Jackson Atlanta International Airport",
         country |-> "United States"]) @@
    ("LAX" :> [city |-> "Los Angeles", state |-> "CA",
         name |-> "Los Angeles International Airport",
         country |-> "United States"]) @@
    ("ORD" :> [city |-> "Chicago", state |-> "IL",
         name |-> "Chicago O'Hare International Airport",
         country |-> "United States"]) @@
    ("DFW" :> [city |-> "Dallas", state |-> "TX",
         name |-> "Dallas/Fort Worth International Airport",
         country |-> "United States"]) @@
    ("DEN" :> [city |-> "Denver", state |-> "CO",
         name |-> "Denver International Airport",
         country |-> "United States"]) @@
    ("JFK" :> [city |-> "New York", state |-> "NY",
         name |-> "John F. Kennedy International Airport",
         country |-> "United States"]) @@
    ("SFO" :> [city |-> "San Francisco", state |-> "CA",
         name |-> "San Francisco International Airport",
         country |-> "United States"]) @@
    ("SEA" :> [city |-> "Seattle", state |-> "WA",
         name |-> "Seattle-Tacoma International Airport",
         country |-> "United States"]) @@
    ("LAS" :> [city |-> "Las Vegas", state |-> "NV",
         name |-> "McCarran International Airport",
         country |-> "United States"]) @@
    ("BOS" :> [city |-> "Boston", state |-> "MA",
         name |-> "Boston Logan International Airport",
         country |-> "United States"]) @@
    ("EWR" :> [city |-> "Newark", state |-> "NJ",
         name |-> "Newark Liberty International Airport",
         country |-> "United States"]) @@
    ("LGA" :> [city |-> "New York", state |-> "NY",
         name |-> "LaGuardia Airport",
         country |-> "United States"]) @@
    ("CLT" :> [city |-> "Charlotte", state |-> "NC",
         name |-> "Charlotte Douglas International Airport",
         country |-> "United States"]) @@
    ("PHX" :> [city |-> "Phoenix", state |-> "AZ",
         name |-> "Phoenix Sky Harbor International Airport",
         country |-> "United States"]) @@
    ("IAH" :> [city |-> "Houston", state |-> "TX",
         name |-> "George Bush Intercontinental Airport",
         country |-> "United States"]) @@
    ("MIA" :> [city |-> "Miami", state |-> "FL",
         name |-> "Miami International Airport",
         country |-> "United States"]) @@
    ("MCO" :> [city |-> "Orlando", state |-> "FL",
         name |-> "Orlando International Airport",
         country |-> "United States"]) @@
    ("MSP" :> [city |-> "Minneapolis", state |-> "MN",
         name |-> "Minneapolis-St. Paul International Airport",
         country |-> "United States"]) @@
    ("DTW" :> [city |-> "Detroit", state |-> "MI",
         name |-> "Detroit Metropolitan Airport",
         country |-> "United States"]) @@
    ("PHL" :> [city |-> "Philadelphia", state |-> "PA",
         name |-> "Philadelphia International Airport",
         country |-> "United States"]) @@
    ("BWI" :> [city |-> "Baltimore", state |-> "MD",
         name |-> "Baltimore/Washington International Airport",
         country |-> "United States"]) @@
    ("SAN" :> [city |-> "San Diego", state |-> "CA",
         name |-> "San Diego International Airport",
         country |-> "United States"]) @@
    ("DCA" :> [city |-> "Washington", state |-> "DC",
         name |-> "Ronald Reagan Washington National Airport",
         country |-> "United States"]) @@
    ("IAD" :> [city |-> "Washington", state |-> "DC",
         name |-> "Washington Dulles International Airport",
         country |-> "United States"]) @@
    ("TPA" :> [city |-> "Tampa", state |-> "FL",
         name |-> "Tampa International Airport",
         country |-> "United States"]) @@
    ("PDX" :> [city |-> "Portland", state |-> "OR",
         name |-> "Portland International Airport",
         country |-> "United States"]) @@
    ("STL" :> [city |-> "St. Louis", state |-> "MO",
         name |-> "Lambert-St. Louis International Airport",
         country |-> "United States"]) @@
    ("HNL" :> [city |-> "Honolulu", state |-> "HI",
         name |-> "Daniel K. Inouye International Airport",
         country |-> "United States"])

\* _get_airport_info
GetAirportInfo(airport_code) ==
    IF StrUpper(airport_code) \in DOMAIN AirportMapping
    THEN AirportMapping[StrUpper(airport_code)]
    ELSE [city |-> "Unknown City", state |-> "Unknown",
          name |-> StrUpper(airport_code) \o " Airport", country |-> "United States"]

\* _get_season
GetSeason(month) ==
    IF month \in {12, 1, 2} THEN "Winter"
    ELSE IF month \in {3, 4, 5} THEN "Spring"
    ELSE IF month \in {6, 7, 8} THEN "Summer"
    ELSE "Fall"

\* date.toordinal(): the number of the day, day 1 being 0001-01-01
RECURSIVE DaysBeforeMonth(_, _)
DaysBeforeMonth(y, m) == IF m = 1 THEN 0 ELSE DaysBeforeMonth(y, m - 1) + DaysInMonth(y, m - 1)

\* day numbers of a calendar whose months all have thirty days
ToOrdinal_ThirtyDayMonths(date) == 360 * date.Y + 30 * date.m + date.d

ToOrdinal(date) ==
    365 * (date.Y - 1) + ((date.Y - 1) \div 4) - ((date.Y - 1) \div 100)
        + ((date.Y - 1) \div 400) + DaysBeforeMonth(date.Y, date.m) + date.d

\* _get_fallback_weather_analysis
GetFallbackWeatherAnalysis(airport_code, analysis_type) ==
    [weather_risk |->
         [level |-> "medium",
          description |-> "Weather analysis for " \o airport_code
                              \o " currently unavailable, using standard seasonal patterns"],
     weather_conditions |-> [conditions |-> "Weather conditions analysis pending"],
     airport_complexity |->
         [complexity |-> "medium",
          description |-> "Airport complexity analysis for " \o airport_code
                              \o " currently unavailable, standard operational assessment applied",
          concerns |-> <<"Analysis temporarily unavailable">>],
     data_source |-> "Fallback " \o analysis_type \o " analysis"]

\* the request _get_serpapi_weather sends
WeatherSearchRequest(airport_code) ==
    [url |-> "https://serpapi.com/search", engine |-> "google",
     q |-> "weather " \o airport_code \o " airport", timeout |-> 10]

\* the structure _get_serpapi_weather returns when the fetch fails
DefaultWeather ==
    [conditions |-> Str("Weather data unavailable"), temperature |-> Str("N/A"),
     wind_speed |-> Str("N/A"), visibility |-> Str("N/A"),
     deterministic_risk |->
         [level |-> "medium",
          description |-> "Weather data temporarily unavailable, using standard assessment"]]

\* the provider's fields of weather_result or answer_box under the agent's names
MapWeather(raw_weather) ==
    [conditions |-> Get(raw_weather, "weather", Str("Unknown")),
     temperature |-> Get(raw_weather, "temperature", Str("N/A")),
     wind_speed |-> Get(raw_weather, "wind", Str("N/A")),
     humidity |-> Get(raw_weather, "humidity", Str("N/A")),
     precipitation |-> Get(raw_weather, "precipitation", Str("N/A")),
     location |-> Get(raw_weather, "location", Str("Unknown")),
     date |-> Get(raw_weather, "date", Str("Unknown"))]

\* _get_serpapi_weather for the provider's reply: every exception (the request, the
\* status, the body, data['weather_result']['weather'] of the log line, .keys() of
\* an answer_box that is no dict) gives the default structure
GetSerpapiWeather(reply) ==
    IF IsRaised(reply) THEN DefaultWeather
    ELSE IF reply.status >= 400 THEN DefaultWeather
    ELSE IF reply.json.kind # "object" THEN DefaultWeather
    ELSE LET data == reply.json.value
         IN  IF "weather_result" \in DOMAIN data
             THEN IF IsNone(data.weather_result) THEN DefaultWeather
                  ELSE IF "weather" \notin DOMAIN data.weather_result THEN DefaultWeather
                  ELSE AddDeterministicRiskAssessment(MapWeather(data.weather_result))
             ELSE IF "answer_box" \in DOMAIN data
             THEN IF IsNone(data.answer_box) THEN DefaultWeather
                  ELSE IF Get(data.answer_box, "type", None) = Str("weather_result")
                  THEN AddDeterministicRiskAssessment(MapWeather(data.answer_box))
                  ELSE AddDeterministicRiskAssessment(EmptyDict)
             ELSE AddDeterministicRiskAssessment(EmptyDict)

\* the clean-up of the generated text before json.loads, in both weather analyses
CleanResponse(text) == StrStrip(StripFences(StrStrip(text)))

\* _analyze_seasonal_patterns: [result |-> the value returned, tagged with its JSON
\* kind, calls |-> model calls made]; replies are the model's replies in order
AnalyzeSeasonalPatterns(airport_code, flight_date, replies) ==
    IF StrptimeDate(flight_date, DateFormats[1]) = <<>>
    THEN [result |-> [kind |-> "object",
                      value |-> GetFallbackWeatherAnalysis(airport_code, "seasonal")],
          calls |-> <<>>]
    ELSE CHOOSE out \in
        {[result |->
             [kind |-> "object",
              value |-> IF IsRaised(response)
                        THEN GetFallbackWeatherAnalysis(airport_code, "seasonal")
                        ELSE CHOOSE v \in
                            \* {**analysis} raises for what is no object
                            {IF analysis.kind # "object"
                             THEN GetFallbackWeatherAnalysis(airport_code, "seasonal")
                             ELSE SetKey(analysis.value, "data_source",
                                         "Seasonal weather patterns analysis")
                                : analysis \in {JsonLoads(CleanResponse(response.text))}}
                            : TRUE],
          calls |-> <<"seasonal_patterns">>]
            : response \in {GenerateContent(replies[1])}}
        : TRUE

\* a weather analysis that sends the weather search a second time
AnalyzeRealtimeWeather_Retry(airport_code, flight_date, weather_reply, replies) ==
    [requests |-> <<WeatherSearchRequest(airport_code), WeatherSearchRequest(airport_code)>>]
        @@ AnalyzeSeasonalPatterns(airport_code, flight_date, replies)

\* _analyze_realtime_weather: also requests |-> the provider requests made
AnalyzeRealtimeWeather(airport_code, flight_date, weather_reply, replies) ==
    CHOOSE out \in
        {IF IsRaised(response)
         \* the seasonal analysis in the except clause, with the model's next reply
         THEN [requests |-> <<WeatherSearchRequest(airport_code)>>] @@
              [result |-> AnalyzeSeasonalPatterns(airport_code, flight_date, Tail(replies)).result,
               calls |-> <<"realtime_weather">>
                   \o AnalyzeSeasonalPatterns(airport_code, flight_date, Tail(replies)).calls]
         ELSE [result |-> CHOOSE v \in
                   {IF analysis.kind = "invalid"
                    THEN [kind |-> "object",
                          value |-> GetFallbackWeatherAnalysis(airport_code, "real-time")]
                    ELSE analysis
                       : analysis \in {JsonLoads(CleanResponse(response.text))}}
                   : TRUE,
               calls |-> <<"realtime_weather">>,
               requests |-> <<WeatherSearchRequest(airport_code)>>]
            : response \in {GenerateContent(replies[1])}}
        : TRUE

\* analyze_weather_conditions with the search-provider key configured or not, on the
\* day today: [result |-> the dict returned, calls, requests]
AnalyzeWeatherConditionsOf(key, airport_code, flight_date, today, weather_reply, replies) ==
    CHOOSE out \in
        {IF flight_dt = <<>>
         \* strptime raises
         THEN [result |-> GetFallbackWeatherAnalysis(airport_code, "error"),
               calls |-> <<>>, requests |-> <<>>]
         ELSE CHOOSE o \in
             {[result |->
                  IF analysis.result.kind = "object"
                  THEN [k \in (DOMAIN analysis.result.value)
                            \cup {"airport_code", "city", "state", "airport_name", "country"} |->
                           CASE k = "airport_code" -> airport_code
                             [] k = "city" -> GetAirportInfo(airport_code).city
                             [] k = "state" -> GetAirportInfo(airport_code).state
                             [] k = "airport_name" -> GetAirportInfo(airport_code).name
                             [] k = "country" -> GetAirportInfo(airport_code).country
                             [] OTHER -> analysis.result.value[k]]
                  ELSE GetFallbackWeatherAnalysis(airport_code, "error"),
               calls |-> analysis.calls,
               requests |-> analysis.requests]
                 : analysis \in
                     {IF ToOrdinal(flight_dt) - ToOrdinal(today) \in 0..7 /\ key
                      THEN AnalyzeRealtimeWeather(airport_code, flight_date, weather_reply, replies)
                      ELSE [requests |-> <<>>] @@
                           AnalyzeSeasonalPatterns(airport_code, flight_date, replies)}}
             : TRUE
            : flight_dt \in {StrptimeDate(flight_date, DateFormats[1])}}
        : TRUE

(***************************************************************************)
(* LayoverAnalysisAgent: the batch analyses                                *)
(***************************************************************************)
\* analyze_batch_layover_feasibility: [result |-> the dict returned, calls |-> model
\* calls made].  The prompt is built from the .get of every descriptor; with no
\* model client, self.gemini_model.generate_content raises before any call.
AnalyzeBatchLayoverFeasibilityOf_Fallback(model, layover_data_list, reply) ==
    IF layover_data_list = <<>> THEN [result |-> EmptyDict, calls |-> <<>>]
    ELSE [result |-> [i \in {Get(layover_data_list[k], "airport_code", "Unknown")
                                : k \in DOMAIN layover_data_list} |->
                         [risk_level |-> "medium", risk_score |-> 50]],
          calls |-> <<>>]

\* the batch analysis without its outer except clause
AnalyzeBatchLayoverFeasibilityOf_NoCatch(model, layover_data_list, reply) ==
    IF layover_data_list = <<>> THEN [result |-> EmptyDict, calls |-> <<>>]
    ELSE IF ~model
    THEN [result |-> Raised("'NoneType' object has no attribute 'generate_content'"),
          calls |-> <<>>]
    ELSE [result |-> IF IsRaised(reply) THEN reply ELSE EmptyDict,
          calls |-> <<"batch_layover_analysis">>]

AnalyzeBatchLayoverFeasibilityOf(model, layover_data_list, reply) ==
    IF layover_data_list = <<>> THEN [result |-> EmptyDict, calls |-> <<>>]
    ELSE IF \E i \in DOMAIN layover_data_list : IsNone(layover_data_list[i])
    THEN [result |-> EmptyDict, calls |-> <<>>]
    ELSE IF ~model THEN [result |-> EmptyDict, calls |-> <<>>]
    ELSE CHOOSE out \in
        {[result |->
             IF IsRaised(response) THEN EmptyDict
             ELSE CHOOSE v \in
                 {IF batch_results.kind = "object" THEN batch_results.value ELSE EmptyDict
                     : batch_results \in {JsonLoads(CleanResponse(response.text))}}
                 : TRUE,
          calls |-> <<"batch_layover_analysis">>]
            : response \in {GenerateContent(reply)}}
        : TRUE

\* self._fallback_parse_duration: the class defines no such method
FallbackParseDuration(duration_str) ==
    Raised("'LayoverAnalysisAgent' object has no attribute '_fallback_parse_duration'")

\* the assessment _create_fallback_batch_analysis makes for a duration
FallbackAssessment(duration_minutes) ==
    [risk_level |-> IF duration_minutes >= 120 THEN "low"
                    ELSE IF duration_minutes >= 60 THEN "medium" ELSE "high",
     risk_score |-> IF duration_minutes >= 120 THEN 30
                    ELSE IF duration_minutes >= 60 THEN 50 ELSE 75,
     overall_feasibility |-> IF duration_minutes >= 120 THEN "Comfortable connection time"
                             ELSE IF duration_minutes >= 60 THEN "Adequate connection time"
                             ELSE "Tight connection time",
     minimum_connection_time |-> 60,
     buffer_analysis |-> [buffer_adequacy |-> "unknown"],
     recommendations |-> <<"Monitor flight status", "Allow extra time">>,
     risk_factors |-> <<"Fallback analysis used">>,
     contextual_analysis |-> [airport_specific |-> "Fallback analysis"]]

\* _create_fallback_batch_analysis: the loop from descriptor number i on, results
\* being the assessments made so far
RECURSIVE CreateFallbackBatchAnalysisFrom(_, _, _)
CreateFallbackBatchAnalysisFrom(layover_data_list, i, results) ==
    IF i > Len(layover_data_list) THEN Returned(results)
    ELSE CHOOSE out \in
        {IF IsRaised(duration_minutes) THEN duration_minutes
         ELSE CreateFallbackBatchAnalysisFrom(
                  layover_data_list, i + 1,
                  SetKey(results, Get(layover_data_list[i], "airport_code", "Unknown"),
                         FallbackAssessment(duration_minutes.value)))
            : duration_minutes \in
                {FallbackParseDuration(Get(layover_data_list[i], "duration_str", "1h"))}}
        : TRUE

CreateFallbackBatchAnalysis(layover_data_list) ==
    CreateFallbackBatchAnalysisFrom(layover_data_list, 1, EmptyDict)

(***************************************************************************)
(* Inputs of the operations and replies of the collaborators.              *)
(***************************************************************************)
DurationStrs == {"1h 30m"}
AirportCodes == {"ATL"}
\* weather_data: the default None, or a weather assessment
WeatherDataArgs == {None, [risk_level |-> "low", airport_complexity |-> "medium"]}

Text(t) == [text |-> t]

\* replies to the duration-parsing prompt
ParseReplies ==
    {Text(ToString(n)) : n \in 0..MaxDuration}
        \cup {Text(" 90\n"), Text("-5"), Text("+45"), Text("90 minutes"), Text("1h 30m"),
              Text("90.0"), Text(""), Raised("429 quota exceeded")}

\* replies to the second duration-parsing prompt, sent while the analysis prompt is built
ReparseReplies == {Text("90"), Raised("429 quota exceeded")}

Fenced(body) == FenceJson \o "\n" \o body \o "\n" \o Fence

\* replies to the layover-analysis prompt
AnalysisReplies ==
    {Text(JsonAnalysisBody), Text(Fenced(JsonAnalysisBody)), Text(JsonAnalysisBody \o "\n"),
     Text(JsonErrorBody), Text(JsonArrayBody), Text(JsonNumberBody), Text(JsonStringBody),
     Text(NotJsonBody), Text(Fenced(NotJsonBody)), Text(Fenced(JsonArrayBody)),
     Text(Fence \o "\n" \o JsonAnalysisBody \o "\n" \o Fence),
     Raised("503 service unavailable")}

\* phrases of a weather description
Phrases ==
    {"thunderstorms expected", "partly cloudy", "light rain", "Heavy Rain", "heavy snow",
     "FOG", "nice", "Clear", "sunny", "fair", "Overcast", "snow", "Mostly Cloudy", "windy",
     "Unknown", ""}

\* conditions strings: up to n phrases, comma separated
RECURSIVE ConditionTexts(_)
ConditionTexts(n) ==
    IF n <= 1 THEN Phrases
    ELSE Phrases \cup {p \o ", " \o t : p \in Phrases, t \in ConditionTexts(n - 1)}

\* weather_data: what _get_serpapi_weather built from the provider's payload (with
\* or without conditions, conditions null), or a value that is no dict
WeatherInfos ==
    {[conditions |-> Str(c), temperature |-> "72"] : c \in ConditionTexts(MaxPhrases)}
        \cup {[conditions |-> None, temperature |-> "72"], <<>>, None}

FlightChars == {"A", "s", "4", " ", "-"}

RECURSIVE StringsUpTo(_, _)
StringsUpTo(chars, n) ==
    IF n = 0 THEN {""}
    ELSE LET shorter == StringsUpTo(chars, n - 1)
         IN  shorter \cup {c \o t : c \in chars, t \in {u \in shorter : Len(u) = n - 1}}

\* flight-number values: generated strings, the provider's usual forms, and non-strings
FlightNumbers ==
    {Str(t) : t \in StringsUpTo(FlightChars, MaxFlightLen)}
        \cup {Str("DL1590"), Str("B6 615"), Str("AS 41"), Str("dl 1590"), Str("Unknown"),
              PyIntValue(1590), None}

AirlineNames ==
    {Str("Delta Air Lines"), Str("JetBlue"), Str("  Alaska "), Str("Virgin America"),
     Str("Emirates"), Str("air  france"), Str("X"), Str(""), Str("Unknown"), None}

\* segments of a provider itinerary; the last one lacks the airports, the airline and
\* the flight number
Segments ==
    {[departure_airport |-> [id |-> "JFK", name |-> "John F. Kennedy International Airport",
                             time |-> "2025-07-30 06:59"],
      arrival_airport |-> [id |-> "ATL",
                           name |-> "Hartsfield-Jackson Atlanta International Airport",
                           time |-> "2025-07-30 09:30"],
      airline |-> "Delta Air Lines", flight_number |-> "DL 1590", duration |-> 151,
      airplane |-> "Boeing 737"],
     [departure_airport |-> [id |-> "XNA", name |-> "Northwest Arkansas Regional",
                             time |-> "2025-07-30 13:05"],
      arrival_airport |-> [id |-> "SFO", name |-> "San Francisco International Airport",
                           time |-> "around noon"],
      airline |-> "Virgin America", flight_number |-> "22", duration |-> 0],
     [duration |-> 60, aircraft |-> "Airbus A320"]}

\* layover entries of the provider; the second has no airport code, no overnight
\* flag and a duration that is not positive
LayoverEntries ==
    {[duration |-> 75, id |-> "ATL",
      name |-> "Hartsfield-Jackson Atlanta International Airport", overnight |-> TRUE],
     [duration |-> 0, name |-> "Northwest Arkansas Regional"]}

\* sequences over a set of length lo..hi
SeqsOfLength(S, lo, hi) == UNION {[1..n -> S] : n \in lo..hi}

\* provider payloads of one itinerary
FlightPayloads ==
    {[flights |-> f, layovers |-> l, total_duration |-> t, price |-> 320]
        : f \in SeqsOfLength(Segments, 0, MaxSegments),
          l \in SeqsOfLength(LayoverEntries, 0, MaxLayovers),
          t \in {0, 246}}

\* itineraries of a provider response: a direct flight, a flight with one stop, an
\* itinerary without segments and a null; the last two do not normalise
DirectItinerary ==
    [flights |-> <<CHOOSE s \in Segments : Get(s, "flight_number", "") = "DL 1590">>,
     layovers |-> <<>>, total_duration |-> 151, price |-> 320]

OneStopItinerary ==
    [flights |-> <<CHOOSE s \in Segments : Get(s, "flight_number", "") = "DL 1590",
                   CHOOSE s \in Segments : Get(s, "flight_number", "") = "22">>,
     layovers |-> <<CHOOSE l \in LayoverEntries : Get(l, "id", "") = "ATL">>,
     total_duration |-> 246, price |-> 275]

NoSegmentsItinerary == [flights |-> <<>>, layovers |-> <<>>, price |-> 99]

\* n itineraries, direct and one-stop in turn, with the one at position dropped
\* (if any) replaced by one that does not normalise
Itineraries(n, dropped, what) ==
    [i \in 1..n |-> IF i = dropped THEN what
                    ELSE IF i % 2 = 1 THEN DirectItinerary ELSE OneStopItinerary]

\* the JSON objects of a 200 response
FlightResponses ==
    {[best_flights |-> b, other_flights |-> Itineraries(n, dropped, what)]
        : b \in SeqsOfLength({DirectItinerary, None}, 0, MaxBestFlights),
          n \in 0..MaxOtherFlights, dropped \in {0, 2},
          what \in {None, NoSegmentsItinerary}}
        \cup {[other_flights |-> Itineraries(n, 1, NoSegmentsItinerary)]
                 : n \in 1..MaxOtherFlights}
        \cup {[flights |-> <<DirectItinerary>>],
              [error |-> "Invalid API key. Your API key should be here: https://serpapi.com/manage-api-key"],
              [search_metadata |-> [status |-> "Success"]]}

\* replies of the search provider to the flight search: the request fails before a
\* response arrives, a 4xx or 5xx response, or a 200 response whose body is an
\* object, an array or no JSON.  (The message of a body that is no JSON is one
\* both except clauses that can catch it turn into None.)
FlightSearchReplies ==
    {Raised("HTTPSConnectionPool(host='serpapi.com', port=443): Read timed out. (read timeout=30)"),
     [status |-> 429, reason |-> "Too Many Requests"],
     [status |-> 429, reason |-> ""],
     [status |-> 401, reason |-> "Unauthorized"],
     [status |-> 500, reason |-> "Internal Server Error"],
     [status |-> 200, reason |-> "OK",
      json |-> [kind |-> "invalid", message |-> "Expecting value: line 1 column 1 (char 0)"]],
     [status |-> 200, reason |-> "OK", json |-> [kind |-> "array"]]}
        \cup {[status |-> 200, reason |-> "OK", json |-> [kind |-> "object", value |-> data]]
                 : data \in FlightResponses}

\* date and connections arguments of analyze_route
RouteArgs ==
    {[date |-> "2025-07-30", connections |-> None],
     [date |-> "07/30/2025", connections |-> PyList(<<>>)],
     [date |-> "July 30th, 2025", connections |-> PyList(<<"ATL">>)]}

\* what the provider puts under weather_result, or in an answer_box
WeatherResult ==
    [weather |-> Str("Thunderstorm"), temperature |-> Str("72"), wind |-> Str("12 mph"),
     humidity |-> Str("80%"), precipitation |-> Str("60%"),
     location |-> Str("Atlanta, GA"), date |-> Str("Wednesday 3:00 PM")]

\* replies of the search provider to the weather search
WeatherSearchReplies ==
    {Raised("HTTPSConnectionPool(host='serpapi.com', port=443): Read timed out. (read timeout=10)"),
     [status |-> 429, reason |-> "Too Many Requests"],
     [status |-> 200, reason |-> "OK", json |-> [kind |-> "invalid"]],
     [status |-> 200, reason |-> "OK", json |-> [kind |-> "array"]]}
        \cup {[status |-> 200, reason |-> "OK", json |-> [kind |-> "object", value |-> data]]
                 : data \in {[weather_result |-> WeatherResult],
                             [weather_result |-> [temperature |-> Str("72")]],
                             [weather_result |-> None],
                             [answer_box |-> WeatherResult @@ [type |-> Str("weather_result")]],
                             [answer_box |-> [type |-> Str("organic_result")]],
                             [answer_box |-> None],
                             [organic_results |-> <<>>]}}

\* the model's replies to the weather prompts, in order: the second one is asked for
\* only when the first call raised
WeatherReplies ==
    {<<Text(body)>> : body \in {WeatherJsonBody, JsonAnalysisBody, JsonArrayBody, NotJsonBody}}
        \cup {<<Text(Fenced(body))>>
                 : body \in {WeatherJsonBody, JsonAnalysisBody, JsonArrayBody, NotJsonBody}}
        \cup {<<Text(" " \o Fenced(WeatherJsonBody) \o "\n")>>}
        \cup {<<Raised("429 quota exceeded"), reply>>
                 : reply \in {Text(WeatherJsonBody), Text(NotJsonBody),
                              Raised("429 quota exceeded")}}

WeatherAirportCodes == {"atl", "XYZ"}
\* the day analyze_weather_conditions runs on
Todays == {[Y |-> 2025, m |-> 7, d |-> 30], [Y |-> 2025, m |-> 12, d |-> 28]}
FlightDates ==
    {"2025-07-29", "2025-07-30", "2025-08-06", "2025-08-07", "2026-01-04",
     "07/30/2025", "2025-02-30"}

\* layover descriptors of the batch analyses; None stands for an element that is no dict
LayoverDescriptors ==
    {[airport_code |-> "ATL", duration_str |-> "45m", weather_risk |-> "high"],
     [airport_code |-> "DFW", duration_str |-> "1h 30m"],
     [duration_str |-> "2h"],
     None}
BatchLists == SeqsOfLength(LayoverDescriptors, 0, MaxBatch)
\* replies to the batch prompt
BatchReplies == AnalysisReplies \cup {Text(BatchJsonBody), Text(Fenced(BatchJsonBody))}

\* rows of the warehouse's flight_data table: the layovers column is a list of
\* records, the JSON text of a list, text that is no JSON, empty, or missing
LayoversJsonBody ==
    "[{\"airport_code\": \"IAH\", \"city\": \"Houston\", \"layover_duration_minutes\": 95}]"

WarehouseLayover ==
    [airport_code |-> "LAS", city |-> "Las Vegas", layover_duration_minutes |-> 50,
     arrival_time |-> PyDatetime(2025, 7, 30, 9, 5, 0),
     departure_time |-> Str("2025-07-30 09:55:00")]

WarehouseRow(flight_number) ==
    [airline_code |-> "DL", airline_name |-> "Delta Air Lines",
     flight_number |-> flight_number, origin_airport_code |-> "JFK",
     destination_airport_code |-> "SFO"]

WarehouseRows ==
    {WarehouseRow(n) : n \in {"1590", "1591"}} \cup
    {WarehouseRow(n) @@ extra
        : n \in {"1590", "1591"},
          extra \in {[layovers |-> PyList(<<>>), connections |-> None],
                     [layovers |-> None, connections |-> PyList(<<[airport |-> "ATL"]>>)],
                     [layovers |-> PyList(<<WarehouseLayover, [city |-> "Houston"]>>)],
                     [layovers |-> Str(LayoversJsonBody)],
                     [layovers |-> Str(NotJsonBody)],
                     [layovers |-> Str("")]}}

\* replies of the warehouse to the query: it fails, or its rows
WarehouseReplies ==
    {Raised("403 Access Denied: Table argon-acumen-268900:airline_data.flight_data")}
        \cup {[rows |-> rows] : rows \in SeqsOfLength(WarehouseRows, 0, MaxRows)}

\* arguments of _format_duration: integers, numerals and other strings, floats,
\* booleans and None
DurationValues ==
    {PyIntValue(n) : n \in (0 - MaxNegMinutes)..MaxMinutes}
        \cup {Str(ToString(n)) : n \in {0, 5, 60, 125}}
        \cup {Str(" 60 "), Str("-5"), Str("5.0"), Str("2h 5m"), Str(""), None,
              PyBool(TRUE), PyFloat(905), PyFloat(-5), PyNan, PyInf}

\* arguments of _format_serpapi_time: the provider's timestamps for every hour of the
\* day, and texts that strptime("%Y-%m-%d %H:%M") rejects
Minutes == {0, 5, 59}
Timestamp(hour, minute) == "2025-07-30 " \o TwoDigits(hour) \o ":" \o TwoDigits(minute)
Timestamps == {Timestamp(hour, minute) : hour \in 0..23, minute \in Minutes}
UnparsableTimes ==
    {"", "Unknown", "6:59 AM", "2025-07-30", "2025-07-30T06:59", "2025-02-30 06:59",
     "2025-07-30 24:00", "2025-07-30 06:60", "2025-07-30 06:59:00", "07/30/2025 06:59"}
TimeStrs == Timestamps \cup UnparsableTimes \cup {"2025-7-30 6:59"}

AirlineCodes ==
    {Str("AS"), Str("as"), Str("A"), Str("4"), Str(" AS"), Str("DL"), Str("Unknown"),
     Str(""), None}

(***************************************************************************)
(* The state machine.                                                      *)
(***************************************************************************)
\* __init__ of the three agents: the layover agent's model client and the data
\* analyst's warehouse client are constructed or their construction failed, and the
\* weather agent found its search-provider key in the environment or did not
Init ==
    /\ gemini_model \in BOOLEAN
    /\ bq_available \in BOOLEAN
    /\ serpapi_key \in BOOLEAN
    /\ op = "init"
    /\ args = <<>>
    /\ ret = <<>>
    /\ model_calls = <<>>
    /\ external_calls = <<>>

\* each agent's specification starts from the constructions of that agent, with the
\* other two agents constructed
LayoverInit == Init /\ bq_available /\ serpapi_key
WeatherInit == Init /\ gemini_model /\ bq_available
DataAnalystInit == Init /\ gemini_model /\ serpapi_key

\* no call is in progress: the operations are synchronous, one request at a time
Idle == op = "init"

\* the result is handed to the caller; everything a call built is request scoped
Return ==
    /\ ~Idle
    /\ op' = "init"
    /\ args' = <<>>
    /\ ret' = <<>>
    /\ model_calls' = <<>>
    /\ external_calls' = <<>>
    /\ UNCHANGED constructed

\* one call of analyze_layover_feasibility; args keeps the replies the call consumed
AnalyzeLayoverFeasibility ==
    /\ Idle
    /\ \E duration_str \in DurationStrs, airport_code \in AirportCodes,
       weather_data \in WeatherDataArgs,
       reply1 \in ParseReplies, reply2 \in ReparseReplies, reply3 \in AnalysisReplies :
        LET out == AnalyzeLayoverFeasibilityOf(gemini_model, duration_str, airport_code,
                                               weather_data, reply1, reply2, reply3)
        IN  /\ op' = "analyze_layover_feasibility"
            /\ args' = [duration_str |-> duration_str,
                        airport_code |-> airport_code,
                        weather_data |-> weather_data,
                        replies |-> SubSeq(<<reply1, reply2, reply3>>, 1, Len(out.calls))]
            /\ ret' = out.result
            /\ model_calls' = out.calls
            /\ external_calls' = <<>>
            /\ UNCHANGED constructed

\* one call of _format_duration_from_minutes
FormatDurationFromMinutesCall ==
    /\ Idle
    /\ \E minutes \in (0 - MaxNegMinutes)..MaxMinutes :
        /\ op' = "_format_duration_from_minutes"
        /\ args' = [minutes |-> minutes]
        /\ ret' = FormatDurationFromMinutes(minutes)
        /\ model_calls' = <<>>
        /\ external_calls' = <<>>
        /\ UNCHANGED constructed

\* one call of _add_deterministic_risk_assessment
AddDeterministicRiskAssessmentCall ==
    /\ Idle
    /\ \E weather_data \in WeatherInfos :
        /\ op' = "_add_deterministic_risk_assessment"
        /\ args' = [weather_data |-> weather_data]
        /\ ret' = AddDeterministicRiskAssessment(weather_data)
        /\ model_calls' = <<>>
        /\ external_calls' = <<>>
        /\ UNCHANGED constructed

\* one call of _extract_airline_code
ExtractAirlineCodeCall ==
    /\ Idle
    /\ \E flight_number \in FlightNumbers, airline_name \in AirlineNames :
        /\ op' = "_extract_airline_code"
        /\ args' = [flight_number |-> flight_number, airline_name |-> airline_name]
        /\ ret' = ExtractAirlineCode(flight_number, airline_name)
        /\ model_calls' = <<>>
        /\ external_calls' = <<>>
        /\ UNCHANGED constructed

\* one call of _clean_flight_number
CleanFlightNumberCall ==
    /\ Idle
    /\ \E flight_number \in FlightNumbers, airline_code \in AirlineCodes :
        /\ op' = "_clean_flight_number"
        /\ args' = [flight_number |-> flight_number, airline_code |-> airline_code]
        /\ ret' = CleanFlightNumber(flight_number, airline_code)
        /\ model_calls' = <<>>
        /\ external_calls' = <<>>
        /\ UNCHANGED constructed

\* one call of _format_serpapi_time
FormatSerpapiTimeCall ==
    /\ Idle
    /\ \E time_str \in TimeStrs :
        /\ op' = "_format_serpapi_time"
        /\ args' = [time_str |-> time_str]
        /\ ret' = FormatSerpapiTime(time_str)
        /\ model_calls' = <<>>
        /\ external_calls' = <<>>
        /\ UNCHANGED constructed

\* one call of _format_duration
FormatDurationCall ==
    /\ Idle
    /\ \E minutes \in DurationValues :
        /\ op' = "_format_duration"
        /\ args' = [minutes |-> minutes]
        /\ ret' = FormatDuration(minutes)
        /\ model_calls' = <<>>
        /\ external_calls' = <<>>
        /\ UNCHANGED constructed

\* one call of _parse_flight_info
ParseFlightInfoCall ==
    /\ Idle
    /\ \E flight_data \in FlightPayloads :
        /\ op' = "_parse_flight_info"
        /\ args' = [flight_data |-> flight_data, origin |-> "JFK", destination |-> "SFO",
                    date |-> "2025-07-30"]
        /\ ret' = ParseFlightInfo(flight_data, "JFK", "SFO", "2025-07-30")
        /\ model_calls' = <<>>
        /\ external_calls' = <<>>
        /\ UNCHANGED constructed

\* one call of _call_serpapi_flights: one request, and what is made of its reply
CallSerpapiFlightsCall ==
    /\ Idle
    /\ \E reply \in FlightSearchReplies, a \in RouteArgs :
        /\ op' = "_call_serpapi_flights"
        /\ args' = [origin |-> "JFK", destination |-> "SFO", date |-> a.date,
                    reply |-> reply]
        /\ ret' = CallSerpapiFlights(reply)
        /\ model_calls' = <<>>
        /\ external_calls' = <<FlightSearchRequest("JFK", "SFO", a.date)>>
        /\ UNCHANGED constructed

\* one call of analyze_route
AnalyzeRoute ==
    /\ Idle
    /\ \E reply \in FlightSearchReplies, a \in RouteArgs :
        /\ op' = "analyze_route"
        /\ args' = [origin |-> "JFK", destination |-> "SFO", date |-> a.date,
                    connections |-> a.connections, reply |-> reply]
        /\ ret' = AnalyzeRouteOf(reply, "JFK", "SFO", a.date, a.connections)
        /\ model_calls' = <<>>
        /\ external_calls' = <<FlightSearchRequest("JFK", "SFO", a.date)>>
        /\ UNCHANGED constructed

\* one call of analyze_weather_conditions
AnalyzeWeatherConditions ==
    /\ Idle
    /\ \E airport_code \in WeatherAirportCodes, flight_date \in FlightDates,
          today \in Todays, weather_reply \in WeatherSearchReplies,
          replies \in WeatherReplies :
        \E out \in {AnalyzeWeatherConditionsOf(serpapi_key, airport_code, flight_date,
                                                today, weather_reply, replies)} :
            /\ op' = "analyze_weather_conditions"
            /\ args' = [airport_code |-> airport_code, flight_date |-> flight_date,
                        today |-> today, weather_reply |-> weather_reply,
                        replies |-> replies]
            /\ ret' = out.result
            /\ model_calls' = out.calls
            /\ external_calls' = out.requests
            /\ UNCHANGED constructed

\* one call of analyze_batch_layover_feasibility
AnalyzeBatchLayoverFeasibility ==
    /\ Idle
    /\ \E layover_data_list \in BatchLists, reply \in BatchReplies :
        \E out \in {AnalyzeBatchLayoverFeasibilityOf(gemini_model, layover_data_list, reply)} :
            /\ op' = "analyze_batch_layover_feasibility"
            /\ args' = [layover_data_list |-> layover_data_list,
                        replies |-> SubSeq(<<reply>>, 1, Len(out.calls))]
            /\ ret' = out.result
            /\ model_calls' = out.calls
            /\ external_calls' = <<>>
            /\ UNCHANGED constructed

\* one call of _create_fallback_batch_analysis, with a list of dicts
CreateFallbackBatchAnalysisCall ==
    /\ Idle
    /\ \E layover_data_list \in
              {l \in BatchLists : \A i \in DOMAIN l : ~IsNone(l[i])} :
        /\ op' = "_create_fallback_batch_analysis"
        /\ args' = [layover_data_list |-> layover_data_list]
        /\ ret' = CreateFallbackBatchAnalysis(layover_data_list)
        /\ model_calls' = <<>>
        /\ external_calls' = <<>>
        /\ UNCHANGED constructed

\* one call of get_flight_data_from_bigquery
GetFlightDataFromBigquery ==
    /\ Idle
    /\ \E reply \in WarehouseReplies, date \in {"2025-07-30"} :
        \E out \in {GetFlightDataFromBigqueryOf(bq_available, "dl", "1590", date,
                                                 "Delta Air Lines", reply)} :
            /\ op' = "get_flight_data_from_bigquery"
            /\ args' = [airline_code |-> "dl", flight_number |-> "1590", date |-> date,
                        airline_name |-> "Delta Air Lines", reply |-> reply]
            /\ ret' = out.result
            /\ model_calls' = <<>>
            /\ external_calls' = out.queries
            /\ UNCHANGED constructed

\* the three agents are separate objects that share nothing: each has its own
\* specification, and Spec lets the calls of all of them interleave
LayoverNext ==
    \/ AnalyzeLayoverFeasibility
    \/ AnalyzeBatchLayoverFeasibility
    \/ CreateFallbackBatchAnalysisCall
    \/ Return

WeatherNext == AddDeterministicRiskAssessmentCall \/ AnalyzeWeatherConditions \/ Return

DataAnalystNext ==
    \/ ParseFlightInfoCall
    \/ ExtractAirlineCodeCall
    \/ CleanFlightNumberCall
    \/ FormatSerpapiTimeCall
    \/ FormatDurationFromMinutesCall
    \/ FormatDurationCall
    \/ CallSerpapiFlightsCall
    \/ AnalyzeRoute
    \/ GetFlightDataFromBigquery
    \/ Return

\* the operations the agents offer to their callers
PublicNext ==
    \/ AnalyzeLayoverFeasibility
    \/ AnalyzeBatchLayoverFeasibility
    \/ AnalyzeWeatherConditions
    \/ AnalyzeRoute
    \/ GetFlightDataFromBigquery
    \/ Return

Next == LayoverNext \/ WeatherNext \/ DataAnalystNext \/ PublicNext

LayoverSpec == LayoverInit /\ [][LayoverNext]_vars
WeatherSpec == WeatherInit /\ [][WeatherNext]_vars
DataAnalystSpec == DataAnalystInit /\ [][DataAnalystNext]_vars
PublicSpec == Init /\ [][PublicNext]_vars
Spec == Init /\ [][Next]_vars

(***************************************************************************)
(* Properties.                                                             *)
(***************************************************************************)
LayoverCall == op = "analyze_layover_feasibility"

\* C1: whenever analyze_layover_feasibility reports a connection type for a parsed
\* duration d, it is tight for d < 45, standard for 45..119, comfortable for
\* 120..359 and plenty_of_time for d >= 360.
C1_ConnectionTypeThresholds ==
    (LayoverCall /\ "connection_type" \in DOMAIN ret) =>
        LET d == ret.duration_minutes
        IN  /\ (d < 45) => ret.connection_type = "tight"
            /\ (45 <= d /\ d <= 119) => ret.connection_type = "standard"
            /\ (120 <= d /\ d <= 359) => ret.connection_type = "comfortable"
            /\ (d >= 360) => ret.connection_type = "plenty_of_time"

\* a successful analysis at the boundary d = 120
C1_Witness ==
    /\ LayoverCall
    /\ "analysis_successful" \in DOMAIN ret
    /\ ret.duration_minutes = 120
    /\ ret.connection_type = "comfortable"

NumericResultKeys == {"duration_minutes", "risk_score", "ai_analysis"}

ErrorPayloadWithoutNumbers ==
    /\ "analysis_failed" \in DOMAIN ret
    /\ ret.analysis_failed = TRUE
    /\ "error" \in DOMAIN ret
    /\ DOMAIN ret \cap NumericResultKeys = {}

\* C2: with the model client absent, analyze_layover_feasibility makes no model call
\* and returns an error payload with analysis_failed = true, without numeric results
\* and without the analysis_successful flag.
C2_NoModelNoCallNoNumbers ==
    (LayoverCall /\ ~gemini_model) =>
        /\ model_calls = <<>>
        /\ ErrorPayloadWithoutNumbers
        /\ "analysis_successful" \notin DOMAIN ret

\* a call made while the model client is absent
C2_Witness ==
    /\ LayoverCall
    /\ ~gemini_model
    /\ args.duration_str = "1h 30m"
    /\ ret.analysis_failed = TRUE

\* the call ended in the "Unable to parse duration" branch
DurationUnparsed ==
    /\ LayoverCall
    /\ "error" \in DOMAIN ret
    /\ StartsWith(ret.error, "Unable to parse duration")

\* C3 (as claimed): when the duration cannot be parsed, no model call occurs and the
\* result is an error payload with analysis_failed = true and no numeric results.
C3_Original_NoCallWhenUnparsed ==
    DurationUnparsed => (model_calls = <<>> /\ ErrorPayloadWithoutNumbers)

\* C3 (amended): when the duration cannot be parsed, the only model call made is the
\* single duration-parsing request (none when the model client is absent), no
\* layover-analysis call is made, and the result is an error payload with
\* analysis_failed = true and no numeric results.
C3_OnlyTheParsingCallWhenUnparsed ==
    DurationUnparsed =>
        /\ model_calls = (IF gemini_model THEN <<"parse_duration">> ELSE <<>>)
        /\ ErrorPayloadWithoutNumbers

\* the parsing reply was text that is no integer
C3_Witness ==
    /\ DurationUnparsed
    /\ gemini_model
    /\ Len(args.replies) = 1
    /\ args.replies[1] = Text("90 minutes")

\* the rendering of m minutes the claim describes
C10_Rendering(m) ==
    LET h == m \div 60
        r == m % 60
    IN  CASE h > 0 /\ r > 0 -> ToString(h) \o "h " \o ToString(r) \o "m"
          [] h > 0 /\ r = 0 -> ToString(h) \o "h"
          [] h = 0 -> ToString(r) \o "m"

\* C10: _format_duration_from_minutes maps m > 0 to "{h}h {r}m", "{h}h" or "{r}m"
\* with h = m div 60 and r = m mod 60, and every m <= 0 to "Unknown"; 125 gives
\* "2h 5m", 60 gives "1h", 5 gives "5m" and 0 gives "Unknown".
C10_FormatDurationFromMinutes ==
    (op = "_format_duration_from_minutes") =>
        LET m == args.minutes
        IN  /\ (m > 0) => ret = C10_Rendering(m)
            /\ (m <= 0) => ret = "Unknown"
            /\ (m = 125) => ret = "2h 5m"
            /\ (m = 60) => ret = "1h"
            /\ (m = 5) => ret = "5m"
            /\ (m = 0) => ret = "Unknown"

C10_Witness ==
    /\ op = "_format_duration_from_minutes"
    /\ args.minutes = 125
    /\ ret = "2h 5m"

WeatherCall == op = "_add_deterministic_risk_assessment"

\* the conditions string the classifier reads: weather_data is a dict whose conditions,
\* when present, is a string (an absent key reads as the empty string)
HasConditionsString ==
    /\ WeatherCall
    /\ ~IsNone(args.weather_data)
    /\ IsStr(Get(args.weather_data, "conditions", Str("")))

ConditionsString == Get(args.weather_data, "conditions", Str("")).str

\* the tier the claim gives a lower-cased conditions string
C4_Tier(c) ==
    IF \E t \in {"thunderstorm", "storm", "heavy rain", "heavy snow", "fog", "ice"} :
          Contains(c, t)
    THEN "high"
    ELSE IF \E t \in {"rain", "snow", "cloudy", "overcast"} : Contains(c, t)
    THEN "medium"
    ELSE IF \E t \in {"partly cloudy", "clear", "sunny", "fair"} : Contains(c, t)
    THEN "low"
    ELSE "low"

\* C4: the classifier lower-cases the conditions string and returns the first matching
\* tier in the order high terms, medium terms, low terms, else low; the result is
\* always one of low, medium, high.
C4_WeatherClassifierTiers ==
    WeatherCall =>
        /\ ret.deterministic_risk.level \in {"low", "medium", "high"}
        /\ HasConditionsString =>
              ret.deterministic_risk.level = C4_Tier(StrLower(ConditionsString))

\* mixed case, and a high term that wins over a medium term
C4_Witness ==
    /\ HasConditionsString
    /\ ConditionsString = "Heavy Rain, partly cloudy"
    /\ ret.deterministic_risk.level = "high"

\* C5: "thunderstorms expected" is high, "partly cloudy" is low, "light rain" is
\* medium, and a conditions string that is just one of the low-tier phrases (partly
\* cloudy, clear, sunny, fair) is low.
C5_Original_LowTierPhrases ==
    HasConditionsString =>
        LET c == ConditionsString
            level == ret.deterministic_risk.level
        IN  /\ (c = "thunderstorms expected") => level = "high"
            /\ (c = "partly cloudy") => level = "low"
            /\ (c = "light rain") => level = "medium"
            /\ (StrLower(c) \in {"partly cloudy", "clear", "sunny", "fair"}) => level = "low"

ExtractCall == op = "_extract_airline_code"

\* a 2-character designator followed, directly or after one space, by digits only
DesignatorThenDigits(s) ==
    /\ Len(s) >= 3
    /\ IsCodeChar(CharAt(s, 1))
    /\ IsCodeChar(CharAt(s, 2))
    /\ LET rest == DropFirst(s, 2)
           number == IF CharAt(rest, 1) = " " THEN Tail(rest) ELSE rest
       IN  AllDigits(number)

\* C6: _extract_airline_code gives "DL" for ("DL1590", "Delta Air Lines") and "B6" for
\* ("B6 615", "JetBlue"); for a 2-character designator followed by digits the result
\* is the designator, without any digit of the number.
C6_Original_DesignatorOnly ==
    (ExtractCall /\ IsStr(args.flight_number)) =>
        LET fn == args.flight_number.str
        IN  /\ (fn = "DL1590" /\ args.airline_name = Str("Delta Air Lines")) => ret = "DL"
            /\ (fn = "B6 615" /\ args.airline_name = Str("JetBlue")) => ret = "B6"
            /\ DesignatorThenDigits(fn) => ret = SubSeq(fn, 1, 2)

\* the ordered fallback of the claim; step 1 applies to flight-number strings of at
\* least min_len characters
C7_Fallback(flight_number, airline_name, min_len) ==
    LET prefix == IF IsStr(flight_number) /\ Len(flight_number.str) >= min_len
                  THEN CodePrefix(StrUpper(flight_number.str), 3) ELSE ""
        key == IF IsStr(airline_name) THEN StrStrip(StrLower(airline_name.str)) ELSE ""
        words == IF IsStr(airline_name) THEN SplitWords(StrUpper(airline_name.str)) ELSE <<>>
    IN  IF prefix # "" THEN prefix
        ELSE IF IsStr(airline_name) /\ key \in DOMAIN AirlineMapping THEN AirlineMapping[key]
        ELSE IF Len(words) >= 2 THEN Initials(words)
        ELSE "Unknown"

\* C7 (as claimed): the code is (1) the 1-3 character alphanumeric prefix of the
\* flight-number string whenever it has one, else (2) the table's code for the
\* lower-cased, trimmed name, else (3) the initials of the first two words of the
\* name, else (4) "Unknown".
C7_Original_OrderedFallback ==
    ExtractCall => ret = C7_Fallback(args.flight_number, args.airline_name, 1)

\* C7 (amended): step (1) is taken only for a flight-number string of at least two
\* characters that starts with an alphanumeric character, and yields the longest 1-3
\* character alphanumeric prefix of its upper-cased form; steps (2)-(4) follow in
\* order, each used only when every earlier step yields nothing.
C7_OrderedFallback ==
    ExtractCall => ret = C7_Fallback(args.flight_number, args.airline_name, 2)

\* the flight number has no usable prefix and the name is not in the table
C7_Witness ==
    /\ ExtractCall
    /\ args.flight_number = Str("-4")
    /\ args.airline_name = Str("Virgin America")
    /\ ret = "VA"

CleanCall == op = "_clean_flight_number"

\* a flight-number string, and a code that is a string or absent
CleanOnStrings ==
    /\ CleanCall
    /\ IsStr(args.flight_number)
    /\ (IsStr(args.airline_code) \/ IsNone(args.airline_code))

IsAlnumChar(c) == IsUpperChar(c) \/ IsLowerChar(c) \/ IsDigit(c)

RECURSIVE StripLeadingNonAlnum(_)
StripLeadingNonAlnum(s) ==
    IF s # "" /\ ~IsAlnumChar(CharAt(s, 1)) THEN StripLeadingNonAlnum(Tail(s)) ELSE s

\* C8 (as claimed): the code is stripped from the front of the flight-number string,
\* compared case-insensitively, then leading non-alphanumeric separators are stripped;
\* the original string is returned when nothing remains, when the string does not
\* start with the code, or when the code is empty or "Unknown"; ("AS 41", "AS")
\* gives "41".
C8_Original_StripsCodeFromString ==
    CleanOnStrings =>
        LET fn == args.flight_number.str
            code == IF IsStr(args.airline_code) THEN args.airline_code.str ELSE ""
            rest == StripLeadingNonAlnum(DropFirst(fn, Len(code)))
        IN  ret = IF code = "" \/ code = "Unknown" THEN Str(fn)
                  ELSE IF StartsWith(StrUpper(fn), StrUpper(code)) /\ rest # "" THEN Str(rest)
                  ELSE Str(fn)

\* C8 (amended): the flight-number string and the code are upper-cased and trimmed of
\* surrounding whitespace; when the string so normalised starts with the code so
\* normalised, the code is stripped from its front, then leading non-alphanumeric
\* separators, and that upper-cased remainder is returned; the original string is
\* returned unchanged when nothing remains, when the normalised string does not start
\* with the normalised code, or when the code is empty or "Unknown"; ("AS 41", "AS")
\* gives "41".
C8_StripsCodeFromNormalisedString ==
    CleanOnStrings =>
        LET fn == args.flight_number.str
            code == IF IsStr(args.airline_code) THEN args.airline_code.str ELSE ""
            flight_norm == StrStrip(StrUpper(fn))
            code_norm == StrStrip(StrUpper(code))
            rest == StripLeadingNonAlnum(DropFirst(flight_norm, Len(code_norm)))
        IN  /\ ret = IF code = "" \/ code = "Unknown" THEN Str(fn)
                     ELSE IF StartsWith(flight_norm, code_norm) /\ rest # "" THEN Str(rest)
                     ELSE Str(fn)
            /\ (fn = "AS 41" /\ code = "AS") => ret = Str("41")

C8_Witness ==
    /\ CleanCall
    /\ args.flight_number = Str("AS 41")
    /\ args.airline_code = Str("AS")
    /\ ret = Str("41")

ParseCall == op = "_parse_flight_info"

\* what a layover taken from the provider's entry carries
FromProviderEntry(info, entry) ==
    /\ info.duration # "Unknown"
    /\ info.duration = (IF Get(entry, "duration", 0) > 0
                        THEN FormatDurationFromMinutes(entry.duration) ELSE "1h 30m")
    /\ info.airport = (IF Get(entry, "id", "") # "" THEN entry.id ELSE "Unknown")
    /\ info.airport_name = (IF Get(entry, "name", "") # "" THEN entry.name
                            ELSE "Unknown Airport")
    /\ info.overnight = Get(entry, "overnight", FALSE)

\* what a layover synthesized from the next segment carries
FromNextSegment(info, next_segment) ==
    LET next_departure == Get(next_segment, "departure_airport", EmptyDict)
    IN  /\ info.duration = "Unknown"
        /\ info.airport = Get(next_departure, "id", "Unknown")
        /\ info.airport_name = Get(next_departure, "name", "Unknown Airport")
        /\ info.departure_time = FormatSerpapiTime(Get(next_departure, "time", ""))
        /\ info.overnight = FALSE

\* C9: normalizing an itinerary of n >= 2 segments with k provided layovers gives a
\* flight record with exactly n connections; every connection but the last carries
\* layover info and the last carries none; the layover of 0-based segment
\* i < min(k, n-1) is taken from the provider's entry i and its duration is never
\* "Unknown"; the layover of segment k <= i < n-1 is synthesized from the departure
\* airport and time of segment i+1, with duration "Unknown".
C9_LayoverPerConnection ==
    (ParseCall /\ Len(args.flight_data.flights) >= 2) =>
        LET flights == args.flight_data.flights
            provided == args.flight_data.layovers
            n == Len(flights)
            k == Len(provided)
        IN  /\ ret # None
            /\ Len(ret.connections) = n
            /\ \A j \in 1..n : ("layoverInfo" \in DOMAIN ret.connections[j]) <=> (j < n)
            /\ \A j \in 1..(n - 1) :
                   IF j <= k
                   THEN FromProviderEntry(ret.connections[j].layoverInfo, provided[j])
                   ELSE FromNextSegment(ret.connections[j].layoverInfo, flights[j + 1])

\* three segments and one provided layover: the first layover is the provider's,
\* the second is synthesized, the last segment has none
C9_Witness ==
    /\ ParseCall
    /\ Len(args.flight_data.flights) = 3
    /\ Len(args.flight_data.layovers) = 1
    /\ ret # None
    /\ ret.connections[1].layoverInfo.duration = "1h 15m"
    /\ ret.connections[1].layoverInfo.airport = "ATL"
    /\ ret.connections[2].layoverInfo.duration = "Unknown"
    /\ ret.connections[2].layoverInfo.airport = "XNA"
    /\ "layoverInfo" \notin DOMAIN ret.connections[3]


FormatDurationCalled == op = "_format_duration"

\* C11: _format_duration never raises and never returns "Unknown"; an integer
\* m >= 0 is rendered as "{h}h {r}m" / "{h}h" / "{r}m" with h = m div 60 and
\* r = m mod 60, so that 0 gives "0m"; an input that int() cannot convert gives "0m".
C11_Original_LegacyFormatterTotal ==
    FormatDurationCalled =>
        /\ ~IsRaised(ret)
        /\ ret.value # "Unknown"
        /\ ("int" \in DOMAIN args.minutes /\ args.minutes.int >= 0)
               => ret.value = C10_Rendering(args.minutes.int)
        /\ args.minutes = PyIntValue(0) => ret.value = "0m"
        /\ ~IntOf(args.minutes).ok => ret.value = "0m"

(***************************************************************************)
(* DataAnalystAgent: the flight search of analyze_route.                   *)
(***************************************************************************)
RouteCall == op = "analyze_route"
LookupCall == op = "_call_serpapi_flights"
RateLimited(reply) == "status" \in DOMAIN reply /\ reply.status = 429

\* the provider's reply carries flight data under one of the keys the lookup reads
ReplyHasFlightData(reply) ==
    /\ "json" \in DOMAIN reply
    /\ reply.json.kind = "object"
    /\ \E key \in {"best_flights", "other_flights", "flights"} :
           Get(reply.json.value, key, <<>>) # <<>>

\* the itineraries of the provider's reply, best_flights before other_flights
ProviderItineraries(reply) ==
    IF "json" \in DOMAIN reply /\ reply.json.kind = "object"
    THEN Get(reply.json.value, "best_flights", <<>>)
             \o Get(reply.json.value, "other_flights", <<>>)
    ELSE <<>>

\* C12: whenever the flight search fails (the request fails, a response that is not
\* 200, the rate limit, a response with no flights), analyze_route returns
\* success = false with a message and no flights, and it returns success = true
\* only when the search produced flight data.
C12_Original_FailureShape ==
    RouteCall =>
        /\ ~ReplyHasFlightData(args.reply) =>
               (~ret.success /\ "message" \in DOMAIN ret /\ ret.flights = <<>>)
        /\ ret.success => ReplyHasFlightData(args.reply)

\* the rate-limited search: analyze_route reports success with no flights
C12_RateLimitedSuccess ==
    RouteCall /\ RateLimited(args.reply) /\ ret.success /\ ret.flights = <<>>

\* C13: a 429 reply to the flight search gives the rate-limit result, a mapping
\* whose error is 'SerpAPI rate limit exceeded', and not the null of other
\* failures; the search is not sent a second time.
C13_RateLimitResult ==
    ((LookupCall \/ RouteCall) /\ RateLimited(args.reply)) =>
        /\ Len(external_calls) = 1
        /\ LookupCall =>
               /\ ~IsNone(ret)
               /\ DOMAIN ret = {"error", "message", "account_status"}
               /\ ret.error = "SerpAPI rate limit exceeded"

C13_Witness ==
    /\ LookupCall
    /\ RateLimited(args.reply)
    /\ ret.error = "SerpAPI rate limit exceeded"
    /\ external_calls = <<FlightSearchRequest(args.origin, args.destination, args.date)>>

\* the positions of the provider's itineraries that normalise
Normalised(reply, origin, destination, date) ==
    {i \in DOMAIN ProviderItineraries(reply) :
        ~IsNone(ParseItinerary(ProviderItineraries(reply)[i], origin, destination, date))}

\* C14: a successful analyze_route result has at most 10 flight records, the first
\* (up to) 10 itineraries that normalise, in the provider's order with best_flights
\* before other_flights; an itinerary that fails to normalise is dropped; route_info
\* echoes origin, destination, date and connections (an empty list when none).
C14_FirstTenInOrder ==
    (RouteCall /\ ret.success) =>
        \E good \in {Normalised(args.reply, args.origin, args.destination, args.date)} :
            /\ Len(ret.flights) <= 10
            /\ Len(ret.flights) = IF Cardinality(good) < 10 THEN Cardinality(good) ELSE 10
            /\ \A k \in DOMAIN ret.flights :
                   \E i \in good :
                       /\ Cardinality({j \in good : j <= i}) = k
                       /\ ret.flights[k] =
                              ParseItinerary(ProviderItineraries(args.reply)[i],
                                             args.origin, args.destination, args.date)
            /\ ret.route_info =
                   [origin |-> args.origin, destination |-> args.destination,
                    date |-> args.date,
                    connections |-> IF IsNone(args.connections) THEN <<>>
                                    ELSE args.connections.list]

\* more than 10 itineraries normalise and one before them does not: 10 records
C14_Witness ==
    /\ RouteCall
    /\ ret.success
    /\ Len(ret.flights) = 10
    /\ Cardinality(Normalised(args.reply, args.origin, args.destination, args.date)) > 10
    /\ IsNone(ProviderItineraries(args.reply)[3])
    /\ IsNone(args.connections)
    /\ ret.route_info.connections = <<>>

(***************************************************************************)
(* Parsing of the model's replies.                                         *)
(***************************************************************************)
WeatherAnalysisCall == op = "analyze_weather_conditions"
ValidBodies == {WeatherJsonBody, JsonAnalysisBody, JsonArrayBody}
InvalidBodies == {NotJsonBody}

\* the reply to the last model call of the operation is the text t
LastReplyIs(t) ==
    /\ model_calls # <<>>
    /\ Len(args.replies) >= Len(model_calls)
    /\ args.replies[Len(model_calls)] = Text(t)

\* the replies of the call, with the text b as the last reply read
WithLastReply(b) ==
    [i \in 1..Len(model_calls) |->
        IF i = Len(model_calls) THEN Text(b) ELSE args.replies[i]]

\* what the operation of the current state returns when its last reply is the text b
ResultWithLastReply(b) ==
    IF LayoverCall
    THEN AnalyzeLayoverFeasibilityOf(gemini_model, args.duration_str, args.airport_code,
                                     args.weather_data, WithLastReply(b)[1],
                                     WithLastReply(b)[2], WithLastReply(b)[3]).result
    ELSE AnalyzeWeatherConditionsOf(serpapi_key, args.airport_code, args.flight_date,
                                    args.today, args.weather_reply, WithLastReply(b)).result

\* ret without the fields analyze_weather_conditions adds
WeatherAnalysisOf(result) ==
    [k \in (DOMAIN result) \ {"airport_code", "city", "state", "airport_name", "country"} |->
        result[k]]

\* C15: parsing of the model's reply is insensitive to code fences and total.  For
\* a valid JSON body, the reply that wraps it in a leading ~~~json fence and a
\* trailing ~~~ fence gives the result the bare body gives; for an invalid body,
\* fenced or not, the weather analyses return the fixed medium-risk assessment and
\* the layover analysis an error marker, and no exception reaches the caller.
C15_FenceInsensitiveTotalParsing ==
    (/\ LayoverCall \/ WeatherAnalysisCall
     /\ LayoverCall => Len(model_calls) = 3) =>
        /\ \A b \in ValidBodies :
               LastReplyIs(Fenced(b)) => ret = ResultWithLastReply(b)
        /\ \A b \in InvalidBodies :
               (LastReplyIs(b) \/ LastReplyIs(Fenced(b))) =>
                   /\ ~IsRaised(ret)
                   /\ LayoverCall =>
                          /\ ret.error = "AI layover analysis failed - invalid response format"
                          /\ ret.analysis_failed
                   /\ WeatherAnalysisCall =>
                          \E analysis_type \in {"real-time", "seasonal"} :
                              /\ WeatherAnalysisOf(ret) =
                                     GetFallbackWeatherAnalysis(args.airport_code, analysis_type)
                              /\ ret.weather_risk.level = "medium"

\* a fenced real-time analysis is parsed and returned
C15_Witness ==
    /\ WeatherAnalysisCall
    /\ model_calls = <<"realtime_weather">>
    /\ LastReplyIs(Fenced(WeatherJsonBody))
    /\ WeatherAnalysisOf(ret) = JsonLoads(WeatherJsonBody).value
    /\ ret.weather_risk.level = "low"

\* a fenced reply to the layover analysis that is no JSON gives the error marker
C15_LayoverFallback ==
    /\ LayoverCall
    /\ Len(model_calls) = 3
    /\ LastReplyIs(Fenced(NotJsonBody))
    /\ ret.analysis_failed

(***************************************************************************)
(* LayoverAnalysisAgent: the batch analyses.                               *)
(***************************************************************************)
BatchCall == op = "analyze_batch_layover_feasibility"
FallbackBatchCall == op = "_create_fallback_batch_analysis"
ObjectBodies == {JsonAnalysisBody, JsonErrorBody, BatchJsonBody}

\* the replies whose text is a JSON object, bare, fenced or followed by a newline
RepliesOfObject(b) == {Text(b), Text(Fenced(b)), Text(b \o "\n")}

\* C16: analyze_batch_layover_feasibility returns an empty mapping on every
\* failure: no model client, a model call that raises, generated text that is no
\* JSON, JSON that is no object.  For an empty list it returns an empty mapping
\* without calling the model.  It never raises, and a mapping that is not empty is
\* the object the model generated, never an assessment made up by the agent.
C16_BatchFailsClosed ==
    BatchCall =>
        /\ ~IsRaised(ret)
        /\ Len(model_calls) <= 1
        /\ args.layover_data_list = <<>> => (ret = EmptyDict /\ model_calls = <<>>)
        /\ ~gemini_model => (ret = EmptyDict /\ model_calls = <<>>)
        /\ (/\ model_calls # <<>>
            /\ \A b \in ObjectBodies : args.replies[1] \notin RepliesOfObject(b))
               => ret = EmptyDict
        /\ ret # EmptyDict =>
               /\ gemini_model
               /\ model_calls = <<"batch_layover_analysis">>
               /\ \E b \in ObjectBodies :
                      /\ args.replies[1] \in RepliesOfObject(b)
                      /\ ret = JsonLoads(b).value

\* two layovers, a model client, and a reply that is a JSON array: nothing returned
C16_Witness ==
    /\ BatchCall
    /\ gemini_model
    /\ Len(args.layover_data_list) = 2
    /\ args.replies = <<Text(JsonArrayBody)>>
    /\ ret = EmptyDict

\* the batch analysis without a model client: no call, nothing returned
C16_NoModel ==
    /\ BatchCall
    /\ ~gemini_model
    /\ args.layover_data_list # <<>>
    /\ ret = EmptyDict
    /\ model_calls = <<>>

\* C17: _create_fallback_batch_analysis returns, for the airport code of every
\* layover descriptor, an assessment by duration: high with score 75 below 60
\* minutes, medium with score 50 from 60 to 119, low with score 30 from 120 on.
C17_Original_FallbackBuckets ==
    FallbackBatchCall =>
        /\ ~IsRaised(ret)
        /\ \A i \in DOMAIN args.layover_data_list :
               LET airport_code == Get(args.layover_data_list[i], "airport_code", "Unknown")
               IN  /\ airport_code \in DOMAIN ret.value
                   /\ <<ret.value[airport_code].risk_level,
                        ret.value[airport_code].risk_score>>
                          \in {<<"high", 75>>, <<"medium", 50>>, <<"low", 30>>}

\* the fallback analysis of a 45-minute layover at ATL raises
C17_FallbackRaises ==
    /\ FallbackBatchCall
    /\ args.layover_data_list =
           <<[airport_code |-> "ATL", duration_str |-> "45m", weather_risk |-> "high"]>>
    /\ IsRaised(ret)

(***************************************************************************)
(* WeatherIntelligenceAgent: provenance of an assessment.                  *)
(***************************************************************************)
\* the weather search was sent and the provider's reply carried weather data
LiveWeatherObtained ==
    /\ external_calls # <<>>
    /\ "json" \in DOMAIN args.weather_reply
    /\ args.weather_reply.json.kind = "object"
    /\ LET data == args.weather_reply.json.value
       IN  \/ /\ "weather_result" \in DOMAIN data
              /\ ~IsNone(data.weather_result)
              /\ "weather" \in DOMAIN data.weather_result
           \/ /\ "weather_result" \notin DOMAIN data
              /\ "answer_box" \in DOMAIN data
              /\ ~IsNone(data.answer_box)
              /\ Get(data.answer_box, "type", None) = Str("weather_result")

\* the assessment is the static default structure
IsStaticDefault(result) ==
    \E analysis_type \in {"real-time", "seasonal", "error"} :
        WeatherAnalysisOf(result)
            = GetFallbackWeatherAnalysis(args.airport_code, analysis_type)

\* C18: every assessment analyze_weather_conditions returns carries data_source,
\* and the tag tells the three origins apart: it says real-time only when live
\* weather data was obtained from the provider, seasonal when the content is the
\* model's seasonal text, fallback when the content is the static default.
C18_Original_Provenance ==
    WeatherAnalysisCall =>
        /\ "data_source" \in DOMAIN ret
        /\ ret.data_source = "Real-time weather data from SerpAPI" => LiveWeatherObtained
        /\ StartsWith(ret.data_source, "Fallback") <=> IsStaticDefault(ret)
        /\ (/\ model_calls # <<>>
            /\ model_calls[Len(model_calls)] = "seasonal_patterns"
            /\ ~IsStaticDefault(ret))
               => ret.data_source = "Seasonal weather patterns analysis"

\* the weather search timed out and the assessment says real-time all the same
C18_RealTimeTagWithoutLiveData ==
    /\ WeatherAnalysisCall
    /\ IsRaised(args.weather_reply)
    /\ model_calls = <<"realtime_weather">>
    /\ "data_source" \in DOMAIN ret
    /\ ret.data_source = "Real-time weather data from SerpAPI"

\* a real-time assessment without data_source
C18_NoTag ==
    /\ WeatherAnalysisCall
    /\ model_calls = <<"realtime_weather">>
    /\ "data_source" \notin DOMAIN ret

\* what holds of the tag: the static default is tagged as fallback, and what the
\* seasonal analysis generated as seasonal
C18_FallbackAndSeasonalTagged ==
    WeatherAnalysisCall =>
        /\ IsStaticDefault(ret) =>
               ("data_source" \in DOMAIN ret /\ StartsWith(ret.data_source, "Fallback"))
        /\ (/\ model_calls # <<>>
            /\ model_calls[Len(model_calls)] = "seasonal_patterns"
            /\ ~IsStaticDefault(ret))
               => ret.data_source = "Seasonal weather patterns analysis"

(***************************************************************************)
(* DataAnalystAgent: the warehouse lookup.                                 *)
(***************************************************************************)
BigqueryCall == op = "get_flight_data_from_bigquery"

C20_Unavailable ==
    /\ BigqueryCall
    /\ ~bq_available
    /\ IsNone(ret)
    /\ external_calls = <<>>

(***************************************************************************)
(* The public operations and the failures of their collaborators.          *)
(***************************************************************************)
PublicOperations ==
    {"analyze_route", "get_flight_data_from_bigquery", "analyze_layover_feasibility",
     "analyze_batch_layover_feasibility", "analyze_weather_conditions"}

\* a collaborator of the call failed: no client, an exception, or a reply that
\* is not what the operation asked for
UpstreamFailed ==
    \/ (LayoverCall \/ BatchCall) /\ ~gemini_model
    \/ BigqueryCall /\ ~bq_available
    \/ (RouteCall \/ BigqueryCall) /\ IsRaised(args.reply)
    \/ RouteCall /\ ~ReplyHasFlightData(args.reply)
    \/ /\ LayoverCall \/ BatchCall \/ WeatherAnalysisCall
       /\ \E i \in DOMAIN model_calls :
              \/ IsRaised(args.replies[i])
              \/ \A b \in ValidBodies \cup ObjectBodies :
                     args.replies[i] \notin RepliesOfObject(b)
    \/ WeatherAnalysisCall /\ external_calls # <<>> /\ ~LiveWeatherObtained

\* C19: no public operation lets a failure of the warehouse, the search provider
\* or the model escape as an exception: whatever the collaborators do (no client,
\* an exception, a payload that is malformed or no JSON), analyze_route,
\* get_flight_data_from_bigquery, analyze_layover_feasibility,
\* analyze_batch_layover_feasibility and analyze_weather_conditions return a value.
C19_NoFailureEscapes ==
    op \in PublicOperations =>
        /\ ~IsRaised(ret)
        /\ RouteCall => {"success", "flights"} \subseteq DOMAIN ret
        /\ BigqueryCall => (IsNone(ret) \/ "connections" \in DOMAIN ret)
        /\ LayoverCall =>
               /\ "airport_code" \in DOMAIN ret
               /\ "analysis_failed" \in DOMAIN ret \/ "analysis_successful" \in DOMAIN ret
        /\ BatchCall => (UpstreamFailed => ret = EmptyDict)
        /\ WeatherAnalysisCall =>
               \/ IsStaticDefault(ret)
               \/ {"airport_code", "city"} \subseteq DOMAIN ret

\* the weather search and both model calls fail: the static default is returned
C19_Witness ==
    /\ WeatherAnalysisCall
    /\ UpstreamFailed
    /\ IsRaised(args.weather_reply)
    /\ model_calls = <<"realtime_weather", "seasonal_patterns">>
    /\ IsRaised(args.replies[1])
    /\ IsRaised(args.replies[2])
    /\ ~IsRaised(ret)
    /\ ret.data_source = "Fallback seasonal analysis"

\* each of the other operations returns when its collaborator raised
C19_RouteReturns == RouteCall /\ IsRaised(args.reply) /\ ~ret.success
C19_WarehouseReturns == BigqueryCall /\ bq_available /\ IsRaised(args.reply) /\ IsNone(ret)
C19_LayoverReturns ==
    /\ LayoverCall
    /\ Len(model_calls) = 3
    /\ IsRaised(args.replies[3])
    /\ ret.analysis_failed
C19_BatchReturns ==
    /\ BatchCall
    /\ model_calls # <<>>
    /\ IsRaised(args.replies[1])
    /\ ret = EmptyDict

(***************************************************************************)
(* Requests to the search provider and the warehouse.                      *)
(***************************************************************************)
\* the reply to the request of the call is a failure: an exception, a status that
\* is not 200, or a body that is no JSON object
RequestFailedReply(reply) ==
    \/ IsRaised(reply)
    \/ "status" \in DOMAIN reply /\ reply.status # 200
    \/ "json" \in DOMAIN reply /\ reply.json.kind # "object"

\* C21: there is no retry.  One analyze_route call sends at most one request to the
\* search provider, one weather analysis at most one weather request, and one
\* warehouse lookup at most one query; after a request that failed nothing more
\* is sent to that collaborator in the call, which ends with its one result.
C21_NoRetry ==
    /\ RouteCall =>
           external_calls = <<FlightSearchRequest(args.origin, args.destination, args.date)>>
    /\ WeatherAnalysisCall =>
           /\ Len(external_calls) <= 1
           /\ external_calls # <<>> =>
                  external_calls = <<WeatherSearchRequest(args.airport_code)>>
    /\ BigqueryCall =>
           /\ Len(external_calls) <= 1
           /\ bq_available => Len(external_calls) = 1
    /\ ((RouteCall \/ WeatherAnalysisCall \/ BigqueryCall) /\ external_calls # <<>>
            /\ RequestFailedReply(IF WeatherAnalysisCall THEN args.weather_reply
                                  ELSE args.reply))
           => (Len(external_calls) = 1 /\ ~IsRaised(ret))

\* the weather search fails on the real-time path: one request, and the model is
\* asked once with the default weather structure
C21_Witness ==
    /\ WeatherAnalysisCall
    /\ IsRaised(args.weather_reply)
    /\ external_calls = <<WeatherSearchRequest(args.airport_code)>>
    /\ model_calls = <<"realtime_weather">>

\* a flight search that times out: one request, and the failure result
C21_RouteOnce ==
    /\ RouteCall
    /\ IsRaised(args.reply)
    /\ Len(external_calls) = 1
    /\ ~ret.success

\* a warehouse query that fails: one query, and null
C21_QueryOnce ==
    /\ BigqueryCall
    /\ IsRaised(args.reply)
    /\ Len(external_calls) = 1
    /\ IsNone(ret)

(***************************************************************************)
(* Time formatting.                                                        *)
(***************************************************************************)
FormatTimeCall == op = "_format_serpapi_time"

\* the 12-hour rendering of hour:minute
Clock12(hour, minute) ==
    ToString(((hour + 11) % 12) + 1) \o ":" \o TwoDigits(minute)
        \o (IF hour < 12 THEN " AM" ELSE " PM")

\* the timestamp 'YYYY-MM-DD HH:MM' is rendered as Clock12(HH, MM)
TimestampsRendered ==
    \A hour \in 0..23, minute \in Minutes :
        (FormatTimeCall /\ args.time_str = Timestamp(hour, minute))
            => ret = Clock12(hour, minute)

\* C22 as stated: a timestamp 'YYYY-MM-DD HH:MM' is rendered '{h}:{MM} AM|PM' with
\* h = ((H + 11) mod 12) + 1 and AM iff H < 12, and every input that does not
\* parse in that format is returned unchanged.
C22_Original_UnparsablePassesThrough ==
    /\ TimestampsRendered
    /\ (FormatTimeCall /\ args.time_str \in UnparsableTimes) => ret = args.time_str

\* C22: a timestamp 'YYYY-MM-DD HH:MM' is rendered '{h}:{MM} AM|PM' with
\* h = ((H + 11) mod 12) + 1 and AM iff H < 12; a non-empty input that does not
\* parse in that format is returned unchanged, and the empty input gives
\* 'Unknown'.
C22_TimeFormatting ==
    /\ TimestampsRendered
    /\ (FormatTimeCall /\ args.time_str \in UnparsableTimes) =>
           ret = (IF args.time_str = "" THEN "Unknown" ELSE args.time_str)

\* midnight is rendered with hour 12 and AM
C22_Witness ==
    /\ FormatTimeCall
    /\ args.time_str = Timestamp(0, 5)
    /\ ret = "12:05 AM"

\* an afternoon hour, and a text that passes through
C22_Afternoon == FormatTimeCall /\ args.time_str = Timestamp(13, 59) /\ ret = "1:59 PM"
C22_PassThrough == FormatTimeCall /\ args.time_str = "2025-07-30 24:00" /\ ret = args.time_str
C22_EmptyIsUnknown == FormatTimeCall /\ args.time_str = "" /\ ret = "Unknown"

(***************************************************************************)
(* City resolution in a flight record.                                     *)
(***************************************************************************)
\* city is the resolution of an airport with this code and name: the table's city
\* for a code of the table, otherwise the name without its suffix words when the
\* name is given and something remains of it (no requirement otherwise)
ResolvedCity(code, name, city) ==
    IF code \in DOMAIN AirportCityMapping THEN city = AirportCityMapping[code]
    ELSE (name \notin {"", "Unknown", "Unknown Airport"} /\ StripSuffixes(name, 1) # "")
             => city = StripSuffixes(name, 1)

ResolvedAirport(airport) == ResolvedCity(airport.code, airport.name, airport.city)

\* C23 as stated: in every place a city is filled in (segment departure, segment
\* arrival, provided layover, synthesized layover) a code of the lookup table
\* resolves to its city, and for an unmapped code the city is the airport name
\* with the suffix words stripped.
C23_Original_CityResolution ==
    (ParseCall /\ ret # None) =>
        \A j \in 1..Len(ret.connections) :
            LET connection == ret.connections[j]
            IN  /\ ResolvedAirport(connection.departure.airport)
                /\ ResolvedAirport(connection.arrival.airport)
                /\ ("layoverInfo" \in DOMAIN connection) =>
                       ResolvedCity(connection.layoverInfo.airport,
                                    connection.layoverInfo.airport_name,
                                    connection.layoverInfo.city)

\* a segment departing from an airport outside the table: the city is the code,
\* although the name gives one
C23_SegmentCityIsCode ==
    /\ ParseCall
    /\ ret # None
    /\ \E j \in 1..Len(ret.connections) :
           ret.connections[j].departure.airport =
               [code |-> "XNA", name |-> "Northwest Arkansas Regional", city |-> "XNA"]

\* a synthesized layover at an airport outside the table: the city is the code
C23_SynthesizedCityIsCode ==
    /\ ParseCall
    /\ ret # None
    /\ \E j \in 1..Len(ret.connections) :
           /\ "layoverInfo" \in DOMAIN ret.connections[j]
           /\ ret.connections[j].layoverInfo.airport_name = "Northwest Arkansas Regional"
           /\ ret.connections[j].layoverInfo.city = "XNA"

\* the part that holds: codes of the table resolve to their city everywhere, and a
\* provided layover with a code outside the table takes the city from its name
C23_TableAndProvidedLayover ==
    (ParseCall /\ ret # None) =>
        \A j \in 1..Len(ret.connections) :
            LET connection == ret.connections[j]
                provided == args.flight_data.layovers
            IN  /\ \A end \in {connection.departure.airport, connection.arrival.airport} :
                       end.code \in DOMAIN AirportCityMapping
                           => end.city = AirportCityMapping[end.code]
                /\ ("layoverInfo" \in DOMAIN connection /\ j <= Len(provided)) =>
                       ResolvedCity(connection.layoverInfo.airport,
                                    connection.layoverInfo.airport_name,
                                    connection.layoverInfo.city)

C23_ProvidedCityFromName ==
    /\ ParseCall
    /\ ret # None
    /\ ret.connections # <<>>
    /\ "layoverInfo" \in DOMAIN ret.connections[1]
    /\ ret.connections[1].layoverInfo.airport = "Unknown"
    /\ ret.connections[1].layoverInfo.city = "Northwest Arkansas"

(***************************************************************************)
(* The sign of the parsed duration.                                        *)
(***************************************************************************)
\* C24 as stated: every result of analyze_layover_feasibility that carries
\* duration_minutes has duration_minutes >= 0, whatever text the model returns
\* to the duration prompt.
C24_Original_DurationNonNegative ==
    (LayoverCall /\ "duration_minutes" \in DOMAIN ret) => ret.duration_minutes >= 0

\* the model answers the duration prompt with "-5": the analysis succeeds for a
\* layover of -5 minutes, a tight connection
C24_NegativeDuration ==
    /\ LayoverCall
    /\ args.replies # <<>>
    /\ args.replies[1] = Text("-5")
    /\ "analysis_successful" \in DOMAIN ret
    /\ ret.duration_minutes = 0 - 5
    /\ ret.connection_type = "tight"

\* the part that holds: duration_minutes is the integer int() reads from the model's
\* text, so it is negative only when that text carries a minus sign
C24_DurationIsParsedReply ==
    (LayoverCall /\ "duration_minutes" \in DOMAIN ret) =>
        /\ args.replies # <<>>
        /\ "text" \in DOMAIN args.replies[1]
        /\ PyInt(args.replies[1].text).ok
        /\ ret.duration_minutes = PyInt(args.replies[1].text).val
        /\ ret.duration_minutes < 0 => StartsWith(StrStrip(args.replies[1].text), "-")

(***************************************************************************)
(* Segments with missing fields.                                           *)
(***************************************************************************)
Lacks(segment, field) == field \notin DOMAIN segment

\* the fields of the record, other than the airline code, that are derived from
\* inputs the segments lack hold "Unknown"
MissingInputsAreUnknown ==
    LET flights == args.flight_data.flights
        first_flight == flights[1]
        last_flight == flights[Len(flights)]
    IN  /\ Lacks(first_flight, "airline") => ret.airline_name = "Unknown"
        /\ Lacks(first_flight, "departure_airport") => ret.departure_time = "Unknown"
        /\ Lacks(last_flight, "arrival_airport") => ret.arrival_time = "Unknown"
        /\ \A j \in 1..Len(ret.connections) :
               /\ Lacks(flights[j], "departure_airport") =>
                      ret.connections[j].departure =
                          [airport |-> [code |-> "Unknown", name |-> "Unknown",
                                        city |-> "Unknown"],
                           time |-> "Unknown"]
               /\ Lacks(flights[j], "arrival_airport") =>
                      ret.connections[j].arrival =
                          [airport |-> [code |-> "Unknown", name |-> "Unknown",
                                        city |-> "Unknown"],
                           time |-> "Unknown"]

\* C25 as stated: when segments lack departure_airport, arrival_airport, airline or
\* flight_number, a flight record is still produced, and the airline name, the
\* airline code, the airport codes and names and the times derived from the
\* missing inputs hold "Unknown".
C25_Original_MissingFieldsUnknown ==
    (ParseCall /\ args.flight_data.flights # <<>>) =>
        /\ ret # None
        /\ MissingInputsAreUnknown
        /\ (Lacks(args.flight_data.flights[1], "airline")
                /\ Lacks(args.flight_data.flights[1], "flight_number"))
               => ret.airline_code = "Unknown"

\* a segment without airline and flight number: the airline code is cut from the
\* placeholder of the flight number
C25_CodeFromPlaceholder ==
    /\ ParseCall
    /\ args.flight_data.flights # <<>>
    /\ Lacks(args.flight_data.flights[1], "airline")
    /\ Lacks(args.flight_data.flights[1], "flight_number")
    /\ ret # None
    /\ ret.airline_name = "Unknown"
    /\ ret.airline_code = "UNK"
    /\ ret.flight_number = "UNKNOWN"

\* the part that holds: the record is produced and every other such field is
\* "Unknown"
C25_RecordProduced ==
    (ParseCall /\ args.flight_data.flights # <<>>) =>
        (ret # None /\ MissingInputsAreUnknown)

\* two segments of which the second lacks its airports
C25_UnknownAirports ==
    /\ ParseCall
    /\ Len(args.flight_data.flights) = 2
    /\ Lacks(args.flight_data.flights[2], "arrival_airport")
    /\ ret # None
    /\ ret.arrival_time = "Unknown"
    /\ ret.connections[2].arrival.airport.code = "Unknown"

(***************************************************************************)
(* The formatted flight number.                                            *)
(***************************************************************************)
\* s in upper case without its separators
RECURSIVE Compact(_)
Compact(s) ==
    IF s = "" THEN ""
    ELSE (IF IsAlnumChar(CharAt(s, 1)) THEN StrUpper(SubSeq(s, 1, 1)) ELSE "")
             \o Compact(Tail(s))

\* the first segment has a flight-number string from which a code is extracted
CodeExtracted ==
    /\ ParseCall
    /\ args.flight_data.flights # <<>>
    /\ "flight_number" \in DOMAIN args.flight_data.flights[1]
    /\ Len(args.flight_data.flights[1].flight_number) >= 2
    /\ CodePrefix(StrUpper(args.flight_data.flights[1].flight_number), 3) # ""
    /\ ret # None

\* C26 as stated: the formatted flight number never contains the airline code twice:
\* when a code is extracted from the flight-number string, what follows the code in
\* the formatted number does not start with the code, and the formatted number is
\* the upper-cased original without separators.
C26_Original_CodeOnce ==
    CodeExtracted =>
        /\ StartsWith(ret.flight_number, ret.airline_code)
        /\ ~StartsWith(DropFirst(ret.flight_number, Len(ret.airline_code)), ret.airline_code)
        /\ ret.flight_number = Compact(args.flight_data.flights[1].flight_number)

\* the flight number "22": the code is "22", nothing remains after it, the original
\* is kept as the cleaned number and the formatted number is "2222"
C26_CodeTwice ==
    /\ CodeExtracted
    /\ args.flight_data.flights[1].flight_number = "22"
    /\ ret.airline_code = "22"
    /\ ret.flight_number = "2222"

\* the part that holds: when something follows the code in the flight number, the
\* formatted number is the upper-cased original without the separators after the code
C26_CodeThenRest ==
    CodeExtracted =>
        LET flight_upper == StrStrip(StrUpper(args.flight_data.flights[1].flight_number))
            rest == StripLeadingNonAlnum(DropFirst(flight_upper, Len(ret.airline_code)))
        IN  /\ ret.airline_code = CodePrefix(flight_upper, 3)
            /\ rest # "" => ret.flight_number = ret.airline_code \o rest

C26_DeltaOnce ==
    /\ CodeExtracted
    /\ args.flight_data.flights[1].flight_number = "DL 1590"
    /\ ret.flight_number = "DL1590"

(***************************************************************************)
(* City information in the weather assessment.                             *)
(***************************************************************************)
CityFields == {"airport_code", "city", "state", "airport_name", "country"}

\* C27 as stated: on every path of analyze_weather_conditions, including an
\* invalid flight date, a model response that is no object and any raised error,
\* the result contains airport_code, city, state, airport_name and country.
C27_Original_CityFieldsAlways ==
    WeatherAnalysisCall => CityFields \subseteq DOMAIN ret

\* a flight date strptime rejects: the static assessment, without any city field
C27_InvalidDateNoCity ==
    /\ WeatherAnalysisCall
    /\ args.flight_date = "07/30/2025"
    /\ ret = GetFallbackWeatherAnalysis(args.airport_code, "error")
    /\ CityFields \cap DOMAIN ret = {}

\* the model answers the real-time prompt with a JSON array: the static
\* assessment, without any city field
C27_NonObjectNoCity ==
    /\ WeatherAnalysisCall
    /\ model_calls = <<"realtime_weather">>
    /\ args.replies[1] = Text(JsonArrayBody)
    /\ CityFields \cap DOMAIN ret = {}

\* the part that holds: the city fields are those of the airport table whenever the
\* date is valid and the analysis is an object; otherwise the result is the static
\* "error" assessment
C27_CityFieldsOfObjects ==
    WeatherAnalysisCall =>
        \/ /\ CityFields \subseteq DOMAIN ret
           /\ ret.airport_code = args.airport_code
           /\ ret.city = GetAirportInfo(args.airport_code).city
           /\ ret.state = GetAirportInfo(args.airport_code).state
           /\ ret.airport_name = GetAirportInfo(args.airport_code).name
           /\ ret.country = GetAirportInfo(args.airport_code).country
        \/ /\ ret = GetFallbackWeatherAnalysis(args.airport_code, "error")
           /\ \/ StrptimeDate(args.flight_date, DateFormats[1]) = <<>>
              \/ model_calls = <<"realtime_weather">>

C27_CityOfAtlanta ==
    /\ WeatherAnalysisCall
    /\ args.airport_code = "atl"
    /\ CityFields \subseteq DOMAIN ret
    /\ ret.city = "Atlanta"

(***************************************************************************)
(* The layover analysis without weather data.                              *)
(***************************************************************************)
\* analyze_layover_feasibility was called without weather_data, with a model
\* client, and the model's answer to the duration prompt is an integer
CalledWithoutWeather ==
    /\ LayoverCall
    /\ IsNone(args.weather_data)
    /\ gemini_model
    /\ "text" \in DOMAIN args.replies[1]
    /\ PyInt(args.replies[1].text).ok

\* C28 as stated: called with only duration and airport code (weather_data absent),
\* a parsable duration and an available model, the model is asked for the analysis
\* and its valid JSON response gives a success payload, analysis_successful = true.
C28_Original_SuccessWithoutWeather ==
    CalledWithoutWeather =>
        /\ model_calls = <<"parse_duration", "parse_duration", "layover_analysis">>
        /\ args.replies[3] = Text(JsonAnalysisBody) =>
               ("analysis_successful" \in DOMAIN ret /\ ret.analysis_successful = TRUE)

\* without weather_data the analysis prompt is never sent: the call ends with the
\* error payload of an unavailable analysis
C28_FailsWithoutWeather ==
    /\ CalledWithoutWeather
    /\ args.replies[1] = Text("90")
    /\ model_calls = <<"parse_duration", "parse_duration">>
    /\ ret = [error |-> "AI layover analysis system unavailable",
              airport_code |-> "ATL",
              duration_minutes |-> 90,
              connection_type |-> "standard",
              analysis_failed |-> TRUE]

\* the part that holds: a call without weather_data never succeeds, and a success
\* payload comes only from a call with weather_data
C28_SuccessNeedsWeather ==
    LayoverCall =>
        /\ IsNone(args.weather_data) =>
               ("analysis_failed" \in DOMAIN ret /\ "analysis_successful" \notin DOMAIN ret
                    /\ \A i \in DOMAIN model_calls : model_calls[i] # "layover_analysis")
        /\ "analysis_successful" \in DOMAIN ret => ~IsNone(args.weather_data)

C28_SuccessWithWeather ==
    /\ LayoverCall
    /\ ~IsNone(args.weather_data)
    /\ "analysis_successful" \in DOMAIN ret
    /\ args.replies[3] = Text(JsonAnalysisBody)

(***************************************************************************)
(* The choice between the real-time and the seasonal weather analysis.     *)
(***************************************************************************)
\* the flight dates that are dates in the form YYYY-MM-DD
CalendarDates == {"2025-07-29", "2025-07-30", "2025-08-06", "2025-08-07", "2026-01-04"}

\* the day of the call and flight date are 0..7 days apart: 2025-07-30 is 0 and
\* 2025-08-06 is 7 days after 2025-07-30 (2025-07-29 is -1, 2025-08-07 is 8), and
\* 2026-01-04 is 7 days after 2025-12-28
WithinSevenDays ==
    <<args.today, args.flight_date>> \in
        {<<[Y |-> 2025, m |-> 7, d |-> 30], "2025-07-30">>,
         <<[Y |-> 2025, m |-> 7, d |-> 30], "2025-08-06">>,
         <<[Y |-> 2025, m |-> 12, d |-> 28], "2026-01-04">>}

\* the reply of the model to its k-th prompt gives no JSON
ReplyFails(k) ==
    \/ IsRaised(args.replies[k])
    \/ JsonLoads(CleanResponse(args.replies[k].text)).kind = "invalid"

\* the real-time path: one weather request, then the real-time prompt; when the
\* model call raises, the seasonal prompt once, and when that fails too the static
\* assessment
RealtimePath ==
    /\ external_calls = <<WeatherSearchRequest(args.airport_code)>>
    /\ IF IsRaised(args.replies[1])
       THEN /\ model_calls = <<"realtime_weather", "seasonal_patterns">>
            /\ ReplyFails(2) =>
                   WeatherAnalysisOf(ret)
                       = GetFallbackWeatherAnalysis(args.airport_code, "seasonal")
       ELSE model_calls = <<"realtime_weather">>

\* the seasonal path: no weather request, and the seasonal prompt
SeasonalPath ==
    /\ external_calls = <<>>
    /\ model_calls = <<"seasonal_patterns">>

\* C29 as stated: the real-time path is taken if and only if the flight date is 0
\* to 7 days after the current date and a key is configured; in every other case
\* no request is sent and the seasonal analysis is used.  If the real-time path
\* raises, the seasonal analysis is attempted once, and if that fails too the
\* static fallback is returned.
C29_Original_PathChoice ==
    WeatherAnalysisCall =>
        IF WithinSevenDays /\ serpapi_key THEN RealtimePath ELSE SeasonalPath

\* C29: for a flight date of the form YYYY-MM-DD the real-time path is taken if and
\* only if the date is 0 to 7 days after the current date and a key is configured,
\* and otherwise no request is sent and the seasonal analysis is used; if the
\* real-time model call raises, the seasonal analysis is attempted once, and if
\* that fails too the static fallback is returned.  For any other flight date
\* neither analysis runs: no request, no model call, and the static "error"
\* assessment.
C29_PathChoice ==
    WeatherAnalysisCall =>
        IF args.flight_date \in CalendarDates
        THEN IF WithinSevenDays /\ serpapi_key THEN RealtimePath ELSE SeasonalPath
        ELSE /\ external_calls = <<>>
             /\ model_calls = <<>>
             /\ ret = GetFallbackWeatherAnalysis(args.airport_code, "error")

\* the last day of the window: the real-time model call raises, the seasonal one
\* too, and the static seasonal assessment is returned
C29_Witness ==
    /\ WeatherAnalysisCall
    /\ serpapi_key
    /\ args.today = [Y |-> 2025, m |-> 7, d |-> 30]
    /\ args.flight_date = "2025-08-06"
    /\ external_calls = <<WeatherSearchRequest(args.airport_code)>>
    /\ model_calls = <<"realtime_weather", "seasonal_patterns">>
    /\ IsRaised(args.replies[2])
    /\ ret.data_source = "Fallback seasonal analysis"

\* the day after the window, and a day in the window without a key
C29_EighthDaySeasonal ==
    /\ WeatherAnalysisCall
    /\ serpapi_key
    /\ args.today = [Y |-> 2025, m |-> 7, d |-> 30]
    /\ args.flight_date = "2025-08-07"
    /\ SeasonalPath

C29_NoKeySeasonal ==
    /\ WeatherAnalysisCall
    /\ ~serpapi_key
    /\ WithinSevenDays
    /\ SeasonalPath

C29_InvalidDateNeither ==
    /\ WeatherAnalysisCall
    /\ args.flight_date = "2025-02-30"
    /\ model_calls = <<>>
    /\ external_calls = <<>>

(***************************************************************************)
(* Stops and layovers of a flight record.                                  *)
(***************************************************************************)
\* the layovers entry made of a connection's layover info
SameLayover(entry, info) ==
    /\ entry.airport = info.airport
    /\ entry.airport_name = info.airport_name
    /\ entry.city = info.city
    /\ entry.duration = info.duration
    /\ entry.arrival_time = info.arrival_time
    /\ entry.departure_time = info.departure_time

\* C30: in every flight record, number_of_stops is the length of the layovers list,
\* which is the number of segments minus one, however many layover entries the
\* provider supplied; the j-th entry of the layovers list is the layover info of the
\* j-th connection; a single-segment itinerary has zero stops.
C30_StopsAreSegmentsMinusOne ==
    (ParseCall /\ ret # None) =>
        LET n == Len(args.flight_data.flights)
        IN  /\ ret.number_of_stops = Len(ret.layovers)
            /\ Len(ret.layovers) = n - 1
            /\ \A j \in 1..(n - 1) :
                   /\ "layoverInfo" \in DOMAIN ret.connections[j]
                   /\ SameLayover(ret.layovers[j], ret.connections[j].layoverInfo)
                   /\ ret.layovers[j].travel_date = args.date
            /\ \A j \in 1..Len(ret.connections) :
                   j >= n => "layoverInfo" \notin DOMAIN ret.connections[j]
            /\ n = 1 => ret.number_of_stops = 0

\* three segments and one provider entry: two stops, the provider's layover first
\* and the synthesized one second
C30_Witness ==
    /\ ParseCall
    /\ ret # None
    /\ Len(args.flight_data.flights) = 3
    /\ Len(args.flight_data.layovers) = 1
    /\ ret.number_of_stops = 2
    /\ ret.layovers[1].duration # "Unknown"
    /\ ret.layovers[2].duration = "Unknown"
    /\ ret.layovers[1] # ret.layovers[2]

\* more provider entries than connections, and a single segment with provider entries
C30_MoreEntriesThanStops ==
    /\ ParseCall
    /\ ret # None
    /\ Len(args.flight_data.flights) = 2
    /\ Len(args.flight_data.layovers) = 3
    /\ ret.number_of_stops = 1

C30_SingleSegment ==
    /\ ParseCall
    /\ ret # None
    /\ Len(args.flight_data.flights) = 1
    /\ Len(args.flight_data.layovers) = 2
    /\ Len(ret.connections) = 1
    /\ ret.number_of_stops = 0
====
